---- MODULE Spec2Model ----
(***************************************************************************)
(* A model of the QOI decoders of qoi-parser: Header::from_bytes, the      *)
(* chunked Decoder (src/src/dec.rs) and the byte-at-a-time StreamDecoder   *)
(* with its PixelsIter (src/src/stream/dec.rs).                            *)
(*                                                                         *)
(* Numbers.  A u8 is an integer 0..255 and every u8 operation is reduced   *)
(* mod 256.  A u32 is a pair <<hi, lo>> of 16-bit halves and a u64 a       *)
(* 4-tuple of 16-bit digits, most significant first, so that values above  *)
(* 2^31 are represented exactly.                                           *)
(***************************************************************************)
EXTENDS Integers, Sequences, FiniteSets, TLC

VARIABLES
    sdec,       \* the StreamDecoder object: state, last_pixel, dec_buffer, buffer, num_pix, cur_pix
    out,        \* what the last call on the StreamDecoder returned
    outs,       \* what the feed calls since new()/reset() returned, in order
    lastop,     \* the last call made on the StreamDecoder: "new", "feed" or "reset"
    fresh,      \* TRUE while the StreamDecoder is as StreamDecoder::new() built it (no reset yet)
    input,      \* the bytes fed since new()/reset(), in order
    hdr,        \* the bytes among them that feed did not answer with an error
    emitted,    \* the pixels the caller drained from the returned PixelsIter values
    nops,       \* opcodes the caller has started since the header
    ntrail,     \* bytes fed while the decoder was already Finished
    nresets,    \* reset() calls so far
    resetFrom,  \* just after reset(): the state tag the decoder was in, else "-"
    dec,        \* the chunked Decoder object: state, buffer
    d_src,      \* the byte source handed to the last Decoder::decode call
    d_res,      \* what that call returned
    d_calls,    \* decode calls made on the Decoder object: 0, 1, or 2 for two and more
    h_data,     \* the 14 bytes handed to Header::from_bytes
    h_in,       \* the fields those bytes were written from
    h_res,      \* what Header::from_bytes returned, once called
    iter,       \* the PixelsIter object the caller holds, if any
    made,       \* how that PixelsIter was constructed: its count and pixel, and by whom
    taken       \* what the next() calls on it returned, in order

svars == <<sdec, out, outs, lastop, fresh, input, hdr, emitted, nops, ntrail, nresets, resetFrom>>
dvars == <<dec, d_src, d_res, d_calls>>
hvars == <<h_data, h_in, h_res>>
ivars == <<iter, made, taken>>
vars == <<svars, dvars, hvars, ivars>>

----------------------------------------------------------------------------
(* Bounds of the exploration. *)

\* opcodes a caller sends after the header
MaxOps == 2
\* bytes a caller keeps feeding once the decoder is Finished
MaxTrail == 2
\* reset() calls
MaxResets == 1
\* bytes of opcode stream in a generated source handed to Decoder::decode
MaxSrcLen == 3
----------------------------------------------------------------------------
(* u8, u32 and u64 arithmetic. *)

U8 == 256
U16 == 65536

wrapping_add(a, b) == (a + b) % U8
wrapping_sub(a, b) == (a + U8 - b) % U8

\* byteorder's read_u32::<BigEndian>() and the shifts of feed: b0<<24 | b1<<16 | b2<<8 | b3
ReadU32BE_Swapped(b0, b1, b2, b3) == <<b3 * 256 + b2, b1 * 256 + b0>>
ReadU32BE(b0, b1, b2, b3) == <<b0 * 256 + b1, b2 * 256 + b3>>

\* u32::to_be_bytes
ToBeBytes(v) == <<v[1] \div 256, v[1] % 256, v[2] \div 256, v[2] % 256>>

\* the product of two 16-bit numbers as <<high half, low half>>
Mul16(a, b) ==
    LET a1 == a \div 256  a0 == a % 256
        b1 == b \div 256  b0 == b % 256
        low == (a1 * b0 + a0 * b1) * 256 + a0 * b0
    IN  <<a1 * b1 + low \div U16, low % U16>>

\* u64 * u64 for operands below 2^32 (`w as u64 * h as u64`): the exact product
MulU64(w, h) ==
    LET p0 == Mul16(w[2], h[2])
        p1 == Mul16(w[2], h[1])
        p2 == Mul16(w[1], h[2])
        p3 == Mul16(w[1], h[1])
        t1 == p0[1] + p1[2] + p2[2]
        t2 == p1[1] + p2[1] + p3[2] + t1 \div U16
        t3 == p3[1] + t2 \div U16
    IN  <<t3, t2 % U16, t1 % U16, p0[2]>>

\* `v as u64` of a u32
U64OfU32(v) == <<0, 0, v[1], v[2]>>
\* a small natural number as a u64
U64OfNat(n) == <<0, 0, n \div U16, n % U16>>

----------------------------------------------------------------------------
(* Pixels, the opcode constants and the index hash (src/src/dec.rs). *)

Pixel(r, g, b, a) == [r |-> r, g |-> g, b |-> b, a |-> a]

\* impl Default for Pixel
PixelDefault == Pixel(0, 0, 0, 0)

QOI_OP_RGB == 254
QOI_OP_RGBA == 255
QOI_OP_INDEX == 0
QOI_OP_DIFF == 64
QOI_OP_LUMA == 128
QOI_OP_RUN == 192

CacheSlots == 64

\* `op & 0xc0`
Top2(op) == (op \div 64) * 64
\* `op & 0x3f`
Low6(op) == op % 64

\* Decoder::hash_pixel: Wrapping<u8> products and sums
\* (hash_pixel_Saturating: products and sums that stop at 255)
hash_pixel_Saturating(p) ==
    LET Sat(v) == IF v > 255 THEN 255 ELSE v
    IN  Sat(Sat(Sat(Sat(p.r * 3) + Sat(p.g * 5)) + Sat(p.b * 7)) + Sat(p.a * 11))
hash_pixel(p) ==
    (((p.r * 3) % U8) + ((p.g * 5) % U8) + ((p.b * 7) % U8) + ((p.a * 11) % U8)) % U8

\* [Pixel::default(); 64]
EmptyCache == [i \in 0..(CacheSlots - 1) |-> PixelDefault]

\* self.buffer[hash as usize % 64] = p
CachePut(cache, p) == [cache EXCEPT ![hash_pixel(p) % CacheSlots] = p]

\* the QOI_OP_DIFF arm: three 2-bit differences biased by 2
\* (ApplyDiff_Saturating: the sums clamped to 0..255 instead of wrapping)
ApplyDiff_Saturating(p, op) ==
    LET dr == (op \div 16) % 4
        dg == (op \div 4) % 4
        db == op % 4
        Clamp(v) == IF v < 0 THEN 0 ELSE IF v > 255 THEN 255 ELSE v
    IN  Pixel(Clamp(p.r + dr - 2), Clamp(p.g + dg - 2), Clamp(p.b + db - 2), p.a)
ApplyDiff(p, op) ==
    LET dr == (op \div 16) % 4
        dg == (op \div 4) % 4
        db == op % 4
    IN  Pixel(wrapping_add(p.r, wrapping_sub(dr, 2)),
              wrapping_add(p.g, wrapping_sub(dg, 2)),
              wrapping_add(p.b, wrapping_sub(db, 2)),
              p.a)

\* the green difference of a QOI_OP_LUMA byte: wrapping_sub(op & 0x3f, 32)
LumaDg(op) == wrapping_sub(Low6(op), 32)

\* the QOI_OP_LUMA arm once the second byte is there
\* (ApplyLuma_SwappedNibbles: dr_dg taken from the low nibble, db_dg from the high one)
ApplyLuma_SwappedNibbles(p, dg, byte) ==
    LET dr_dg == byte % 16
        db_dg == (byte \div 16) % 16
        mid == wrapping_sub(dg, 8)
    IN  Pixel(wrapping_add(p.r, wrapping_add(mid, dr_dg)),
              wrapping_add(p.g, dg),
              wrapping_add(p.b, wrapping_add(mid, db_dg)),
              p.a)
ApplyLuma(p, dg, byte) ==
    LET dr_dg == (byte \div 16) % 16
        db_dg == byte % 16
        mid == wrapping_sub(dg, 8)
    IN  Pixel(wrapping_add(p.r, wrapping_add(mid, dr_dg)),
              wrapping_add(p.g, dg),
              wrapping_add(p.b, wrapping_add(mid, db_dg)),
              p.a)

----------------------------------------------------------------------------
(* Header::from_bytes and the TryFrom<u8> conversions (src/src/dec.rs). *)

HeaderLen == 14
Magic_Typo == <<113, 111, 105, 70>>
Magic == <<113, 111, 105, 102>>

HeaderParseError(what) == [kind |-> "HeaderParseError", what |-> what]

\* impl TryFrom<u8> for Channels
ChannelsTryFrom_Lax(value) ==
    CASE value = 3 -> [ok |-> TRUE, v |-> "RGB"]
      [] value = 4 -> [ok |-> TRUE, v |-> "RGBA"]
      [] value = 5 -> [ok |-> TRUE, v |-> "RGBA"]
      [] OTHER -> [ok |-> FALSE, v |-> "channels"]
ChannelsTryFrom(value) ==
    CASE value = 3 -> [ok |-> TRUE, v |-> "RGB"]
      [] value = 4 -> [ok |-> TRUE, v |-> "RGBA"]
      [] OTHER -> [ok |-> FALSE, v |-> "channels"]

\* impl TryFrom<u8> for Colorspace
ColorspaceTryFrom(value) ==
    CASE value = 0 -> [ok |-> TRUE, v |-> "sRGB"]
      [] value = 1 -> [ok |-> TRUE, v |-> "Linear"]
      [] OTHER -> [ok |-> FALSE, v |-> "colorspace"]

\* `Channels::X as u8` and `Colorspace::X as u8`
ChannelsAsU8(ch) == IF ch = "RGB" THEN 3 ELSE 4
ColorspaceAsU8(cs) == IF cs = "sRGB" THEN 0 ELSE 1

NoHeader == [magic |-> <<>>, width |-> <<0, 0>>, height |-> <<0, 0>>,
             channels |-> "-", colorspace |-> "-"]

\* Header::from_bytes on 14 bytes: magic first, then the fields are read, then
\* channels.try_into()? and colorspace.try_into()? in that order
HeaderFromBytes(data) ==
    LET magic == SubSeq(data, 1, 4)
        width == ReadU32BE(data[5], data[6], data[7], data[8])
        height == ReadU32BE(data[9], data[10], data[11], data[12])
        ch == ChannelsTryFrom(data[13])
        cs == ColorspaceTryFrom(data[14])
    IN  IF magic # Magic
        THEN [ok |-> FALSE, err |-> HeaderParseError("magic"), header |-> NoHeader]
        ELSE IF ~ch.ok
        THEN [ok |-> FALSE, err |-> HeaderParseError("channels"), header |-> NoHeader]
        ELSE IF ~cs.ok
        THEN [ok |-> FALSE, err |-> HeaderParseError("colorspace"), header |-> NoHeader]
        ELSE [ok |-> TRUE, err |-> HeaderParseError("-"),
              header |-> [magic |-> magic, width |-> width, height |-> height,
                          channels |-> ch.v, colorspace |-> cs.v]]

----------------------------------------------------------------------------
(* The StreamDecoder (src/src/stream/dec.rs). *)

\* enum StreamDecoderState
NotStarted == [tag |-> "NotStarted", o |-> 0, c |-> 0]
Finished == [tag |-> "Finished", o |-> 0, c |-> 0]
ParsingHeader(c) == [tag |-> "ParsingHeader", o |-> 0, c |-> c]
ParsingOp(o, c) == [tag |-> "ParsingOp", o |-> o, c |-> c]

\* Option<u64>
None == [some |-> FALSE, v |-> <<0, 0, 0, 0>>]
Some(v) == [some |-> TRUE, v |-> v]

\* enum StreamDecoderOutput and the Err side of feed's Result, as one record shape:
\* n is the count of NeedMore and of the PixelsIter, px the iterator's pixel,
\* v the parsed u32, s the parsed enum value or the error's subject
Output(tag, n, px, v, s) == [tag |-> tag, n |-> n, px |-> px, v |-> v, s |-> s]
NoOutput == Output("-", 0, PixelDefault, <<0, 0>>, "-")
OutFinished == Output("Finished", 0, PixelDefault, <<0, 0>>, "-")
NeedMore(n) == Output("NeedMore", n, PixelDefault, <<0, 0>>, "-")
\* Output::Pixels(PixelsIter::new(count, pixel))
Pixels(count, pixel) == Output("Pixels", count, pixel, <<0, 0>>, "-")
ImageWidthParsed(v) == Output("ImageWidthParsed", 0, PixelDefault, v, "-")
ImageHeightParsed(v) == Output("ImageHeightParsed", 0, PixelDefault, v, "-")
ImageChannelParsed(ch) == Output("ImageChannelParsed", 0, PixelDefault, <<0, 0>>, ch)
ImageColorspaceParsed(cs) == Output("ImageColorspaceParsed", 0, PixelDefault, <<0, 0>>, cs)
ErrHeader(what) == Output("HeaderParseError", 0, PixelDefault, <<0, 0>>, what)
ErrDecoding(what) == Output("DecodingError", 0, PixelDefault, <<0, 0>>, what)

IsErr(o) == o.tag \in {"HeaderParseError", "DecodingError"}

\* StreamDecoder::new
StreamNew ==
    [state |-> NotStarted,
     last_pixel |-> PixelDefault,
     dec_buffer |-> EmptyCache,
     buffer |-> <<0, 0, 0, 0>>,
     num_pix |-> None,
     cur_pix |-> 0]

\* StreamDecoder::reset
StreamReset_KeepsScratch(d) ==
    [d EXCEPT !.state = NotStarted,
              !.last_pixel = Pixel(0, 0, 0, 255),
              !.dec_buffer = EmptyCache,
              !.num_pix = None,
              !.cur_pix = 0]
\* (StreamReset_KeepsCache: the index is not cleared)
StreamReset_KeepsCache(d) ==
    [d EXCEPT !.state = NotStarted,
              !.last_pixel = Pixel(0, 0, 0, 255),
              !.buffer = <<0, 0, 0, 0>>,
              !.num_pix = None,
              !.cur_pix = 0]
StreamReset(d) ==
    [state |-> NotStarted,
     last_pixel |-> Pixel(0, 0, 0, 255),
     dec_buffer |-> EmptyCache,
     buffer |-> <<0, 0, 0, 0>>,
     num_pix |-> None,
     cur_pix |-> 0]

\* What one arm of feed's match hands on: the decoder, the value of `out`, the
\* local `count`, and whether the arm left feed at once (`return Err`, `?`).
Arm(d, o, count, early) == [d |-> d, out |-> o, count |-> count, early |-> early]

\* `self.buffer[i] = byte` on the 4-byte scratch buffer
SetScratch(d, i, byte) == [d EXCEPT !.buffer[i + 1] = byte]

\* the State::ParsingHeader(c) arm of feed
\* (FeedHeader_WidthTwice: the height is reported as ImageWidthParsed too)
FeedHeader_WidthTwice(d, byte, c) ==
    IF c \in 0..3 THEN
        IF byte # Magic[c + 1]
        THEN Arm(d, ErrHeader("magic"), 0, TRUE)
        ELSE Arm([d EXCEPT !.state = ParsingHeader(c + 1)],
                 IF c = 3 THEN NeedMore(4) ELSE NeedMore(3 - c), 0, FALSE)
    ELSE IF c \in 4..11 THEN
        IF c = 7 \/ c = 11 THEN
            LET v == ReadU32BE(d.buffer[1], d.buffer[2], d.buffer[3], byte)
                d1 == [d EXCEPT !.state = ParsingHeader(c + 1)]
            IN  IF c = 7
                THEN Arm([d1 EXCEPT !.num_pix = Some(U64OfU32(v))],
                         ImageWidthParsed(v), 0, FALSE)
                ELSE Arm([d1 EXCEPT !.num_pix =
                                 Some(MulU64(<<d.num_pix.v[3], d.num_pix.v[4]>>, v))],
                         ImageWidthParsed(v), 0, FALSE)
        ELSE Arm([SetScratch(d, c % 4, byte) EXCEPT !.state = ParsingHeader(c + 1)],
                 NeedMore((11 - c) % 4), 0, FALSE)
    ELSE IF c = 12 THEN
        LET ch == ChannelsTryFrom(byte)
        IN  IF ~ch.ok
            THEN Arm(d, ErrHeader("channels"), 0, TRUE)
            ELSE Arm([d EXCEPT !.state = ParsingHeader(c + 1)],
                     ImageChannelParsed(ch.v), 0, FALSE)
    ELSE IF c = 13 THEN
        LET cs == ColorspaceTryFrom(byte)
        IN  IF ~cs.ok
            THEN Arm(d, ErrHeader("colorspace"), 0, TRUE)
            ELSE Arm([d EXCEPT !.state = ParsingOp(0, -1)],
                     ImageColorspaceParsed(cs.v), 0, FALSE)
    ELSE Arm(d, ErrHeader("index"), 0, FALSE)
FeedHeader(d, byte, c) ==
    IF c \in 0..3 THEN
        IF byte # Magic[c + 1]
        THEN Arm(d, ErrHeader("magic"), 0, TRUE)
        ELSE Arm([d EXCEPT !.state = ParsingHeader(c + 1)],
                 IF c = 3 THEN NeedMore(4) ELSE NeedMore(3 - c), 0, FALSE)
    ELSE IF c \in 4..11 THEN
        IF c = 7 \/ c = 11 THEN
            LET v == ReadU32BE(d.buffer[1], d.buffer[2], d.buffer[3], byte)
                d1 == [d EXCEPT !.state = ParsingHeader(c + 1)]
            IN  IF c = 7
                THEN Arm([d1 EXCEPT !.num_pix = Some(U64OfU32(v))],
                         ImageWidthParsed(v), 0, FALSE)
                ELSE Arm([d1 EXCEPT !.num_pix =
                                 Some(MulU64(<<d.num_pix.v[3], d.num_pix.v[4]>>, v))],
                         ImageHeightParsed(v), 0, FALSE)
        ELSE Arm([SetScratch(d, c % 4, byte) EXCEPT !.state = ParsingHeader(c + 1)],
                 NeedMore((11 - c) % 4), 0, FALSE)
    ELSE IF c = 12 THEN
        LET ch == ChannelsTryFrom(byte)
        IN  IF ~ch.ok
            THEN Arm(d, ErrHeader("channels"), 0, TRUE)
            ELSE Arm([d EXCEPT !.state = ParsingHeader(c + 1)],
                     ImageChannelParsed(ch.v), 0, FALSE)
    ELSE IF c = 13 THEN
        LET cs == ColorspaceTryFrom(byte)
        IN  IF ~cs.ok
            THEN Arm(d, ErrHeader("colorspace"), 0, TRUE)
            ELSE Arm([d EXCEPT !.state = ParsingOp(0, -1)],
                     ImageColorspaceParsed(cs.v), 0, FALSE)
    ELSE Arm(d, ErrHeader("index"), 0, FALSE)

\* an opcode completes with one pixel: index write, count = 1, back to the sentinel
OnePixel_NoIndexWrite(d, p) ==
    Arm([d EXCEPT !.last_pixel = p, !.state = ParsingOp(0, -1)], Pixels(1, p), 1, FALSE)
OnePixel(d, p) ==
    Arm([d EXCEPT !.last_pixel = p,
                  !.dec_buffer = CachePut(d.dec_buffer, p),
                  !.state = ParsingOp(0, -1)],
        Pixels(1, p), 1, FALSE)

\* the QOI_OP_RGB and QOI_OP_RGBA arms: `last` is the c at which the op completes
\* (FeedRgb_CountsEarly: count = 1 set on every channel byte, not on the last alone)
FeedRgb_CountsEarly(d, byte, op, c, last) ==
    LET p == CASE c = 0 -> [d.last_pixel EXCEPT !.r = byte]
               [] c = 1 -> [d.last_pixel EXCEPT !.g = byte]
               [] c = 2 -> [d.last_pixel EXCEPT !.b = byte]
               [] OTHER -> [d.last_pixel EXCEPT !.a = byte]
    IN  IF c = -1
        THEN Arm([d EXCEPT !.state = ParsingOp(op, 0)], NeedMore(last + 1), 0, FALSE)
        ELSE IF c \in 0..(last - 1)
        THEN Arm([d EXCEPT !.last_pixel = p, !.state = ParsingOp(op, c + 1)],
                 NeedMore(last - c), 1, FALSE)
        ELSE IF c = last
        THEN OnePixel(d, p)
        ELSE Arm(d, ErrDecoding("too many bytes"), 0, FALSE)
FeedRgb(d, byte, op, c, last) ==
    LET p == CASE c = 0 -> [d.last_pixel EXCEPT !.r = byte]
               [] c = 1 -> [d.last_pixel EXCEPT !.g = byte]
               [] c = 2 -> [d.last_pixel EXCEPT !.b = byte]
               [] OTHER -> [d.last_pixel EXCEPT !.a = byte]
    IN  IF c = -1
        THEN Arm([d EXCEPT !.state = ParsingOp(op, 0)], NeedMore(last + 1), 0, FALSE)
        ELSE IF c \in 0..(last - 1)
        THEN Arm([d EXCEPT !.last_pixel = p, !.state = ParsingOp(op, c + 1)],
                 NeedMore(last - c), 0, FALSE)
        ELSE IF c = last
        THEN OnePixel(d, p)
        ELSE Arm(d, ErrDecoding("too many bytes"), 0, FALSE)

\* the QOI_OP_INDEX arm: the index is read and nothing is written back
\* (FeedIndex_KeepsAlpha: the alpha of the last pixel kept, as the RGB arm does)
FeedIndex_KeepsAlpha(d, op) ==
    LET p == [d.dec_buffer[op] EXCEPT !.a = d.last_pixel.a]
    IN  Arm([d EXCEPT !.last_pixel = p, !.state = ParsingOp(0, -1)],
            Pixels(1, p), 1, FALSE)
FeedIndex(d, op) ==
    LET p == d.dec_buffer[op]
    IN  Arm([d EXCEPT !.last_pixel = p, !.state = ParsingOp(0, -1)],
            Pixels(1, p), 1, FALSE)

\* the QOI_OP_LUMA arm: the green difference waits in buffer[0]
\* (FeedLuma_Hint2: the hint after the first byte is 2; FeedLuma_CountFromZero: the
\* first byte leaves ParsingOp(op, 0), the count the RGB arms start from)
FeedLuma_CountFromZero(d, byte, op, c) ==
    IF c = -1
    THEN Arm([SetScratch(d, 0, LumaDg(op)) EXCEPT !.state = ParsingOp(op, 0)],
             NeedMore(1), 0, FALSE)
    ELSE IF c = 1
    THEN OnePixel(d, ApplyLuma(d.last_pixel, d.buffer[1], byte))
    ELSE Arm(d, ErrDecoding("too many bytes"), 0, FALSE)
FeedLuma_Hint2(d, byte, op, c) ==
    IF c = -1
    THEN Arm([SetScratch(d, 0, LumaDg(op)) EXCEPT !.state = ParsingOp(op, 1)],
             NeedMore(2), 0, FALSE)
    ELSE IF c = 1
    THEN OnePixel(d, ApplyLuma(d.last_pixel, d.buffer[1], byte))
    ELSE Arm(d, ErrDecoding("too many bytes"), 0, FALSE)
FeedLuma(d, byte, op, c) ==
    IF c = -1
    THEN Arm([SetScratch(d, 0, LumaDg(op)) EXCEPT !.state = ParsingOp(op, 1)],
             NeedMore(1), 0, FALSE)
    ELSE IF c = 1
    THEN OnePixel(d, ApplyLuma(d.last_pixel, d.buffer[1], byte))
    ELSE Arm(d, ErrDecoding("too many bytes"), 0, FALSE)

\* the QOI_OP_RUN arm: run = (op & 0x3f) + 1, nothing else changes
\* (FeedRun_CountsOne: count = 1 as in the other arms, the iterator still of length run)
FeedRun_CountsOne(d, op) ==
    LET run == Low6(op) + 1
    IN  Arm([d EXCEPT !.state = ParsingOp(0, -1)], Pixels(run, d.last_pixel), 1, FALSE)
FeedRun(d, op) ==
    LET run == Low6(op) + 1
    IN  Arm([d EXCEPT !.state = ParsingOp(0, -1)], Pixels(run, d.last_pixel), run, FALSE)

\* the State::ParsingOp(o, c) arm of feed
FeedOp(d, byte, o, c) ==
    LET op == IF o = 0 /\ c = -1 THEN byte ELSE o
    IN  CASE op = QOI_OP_RGB -> FeedRgb(d, byte, op, c, 2)
          [] op = QOI_OP_RGBA -> FeedRgb(d, byte, op, c, 3)
          [] OTHER ->
               CASE Top2(op) = QOI_OP_INDEX -> FeedIndex(d, op)
                 [] Top2(op) = QOI_OP_DIFF -> OnePixel(d, ApplyDiff(d.last_pixel, op))
                 [] Top2(op) = QOI_OP_LUMA -> FeedLuma(d, byte, op, c)
                 [] Top2(op) = QOI_OP_RUN -> FeedRun(d, op)
                 [] OTHER -> Arm(d, ErrDecoding("invalid op"), 0, FALSE)

\* the State::Finished arm of feed
FeedFinished_Counts(d) == Arm([d EXCEPT !.cur_pix = d.cur_pix + 1], OutFinished, 0, FALSE)
FeedFinished_Pixels(d) == Arm(d, Pixels(1, d.last_pixel), 0, FALSE)
FeedFinished(d) == Arm(d, OutFinished, 0, FALSE)

\* the tail of feed: cur_pix += count, then the Finished test
FeedTail_AfterPixels(d, count) ==
    LET d1 == [d EXCEPT !.cur_pix = d.cur_pix + count]
    IN  IF count > 0 /\ d1.num_pix.some /\ U64OfNat(d1.cur_pix) = d1.num_pix.v
        THEN [d1 EXCEPT !.state = Finished]
        ELSE d1
FeedTail(d, count) ==
    LET d1 == [d EXCEPT !.cur_pix = d.cur_pix + count]
    IN  IF d1.num_pix.some /\ U64OfNat(d1.cur_pix) = d1.num_pix.v
        THEN [d1 EXCEPT !.state = Finished]
        ELSE d1

\* StreamDecoder::feed: the decoder after the call and the value returned
\* (Feed_ErrorRestarts: an early return sends the header position back to 0)
Feed_ErrorRestarts(d, byte) ==
    LET d0 == IF d.state.tag = "NotStarted"
              THEN [d EXCEPT !.state = ParsingHeader(0)]
              ELSE d
        arm == CASE d0.state.tag = "ParsingHeader" -> FeedHeader(d0, byte, d0.state.c)
                 [] d0.state.tag = "ParsingOp" -> FeedOp(d0, byte, d0.state.o, d0.state.c)
                 [] d0.state.tag = "Finished" -> FeedFinished(d0)
                 [] OTHER -> Arm(d0, ErrDecoding("not started"), 0, FALSE)
    IN  IF arm.early
        THEN [d |-> [arm.d EXCEPT !.state = ParsingHeader(0)], out |-> arm.out]
        ELSE [d |-> FeedTail(arm.d, arm.count), out |-> arm.out]
Feed(d, byte) ==
    LET d0 == IF d.state.tag = "NotStarted"
              THEN [d EXCEPT !.state = ParsingHeader(0)]
              ELSE d
        arm == CASE d0.state.tag = "ParsingHeader" -> FeedHeader(d0, byte, d0.state.c)
                 [] d0.state.tag = "ParsingOp" -> FeedOp(d0, byte, d0.state.o, d0.state.c)
                 [] d0.state.tag = "Finished" -> FeedFinished(d0)
                 [] OTHER -> Arm(d0, ErrDecoding("not started"), 0, FALSE)
    IN  IF arm.early
        THEN [d |-> arm.d, out |-> arm.out]
        ELSE [d |-> FeedTail(arm.d, arm.count), out |-> arm.out]

----------------------------------------------------------------------------
(* The chunked Decoder (src/src/dec.rs). *)

\* Decoder::new
DecoderNew == [state |-> Pixel(0, 0, 0, 255), buffer |-> [i \in 0..63 |-> Pixel(0, 0, 0, 0)]]

\* Decoder::reset
DecoderReset_KeepsIndex(self) == [self EXCEPT !.state = Pixel(0, 0, 0, 255)]
DecoderReset(self) == [state |-> Pixel(0, 0, 0, 255), buffer |-> EmptyCache]

\* What decode returns, with the Decoder object it leaves behind.  kind is "Ok",
\* "HeaderParseError", "DecodingError", "IoError" (read_exact met the end of the
\* source) or "Panic" (the call unwound); img is the Vec<Pixel> of an Ok and empty
\* otherwise; pos is the number of bytes read from the source and run the value
\* of the local `run` when the call ended.
DecodeResult(kind, what, header, img, pos, run, self) ==
    [done |-> TRUE, kind |-> kind, what |-> what, header |-> header, img |-> img,
     pos |-> pos, run |-> run, self |-> self]
NoResult ==
    [done |-> FALSE, kind |-> "-", what |-> "-", header |-> NoHeader, img |-> <<>>,
     pos |-> 0, run |-> 0, self |-> DecoderNew]

\* bytes that follow the opcode byte before the pixel is known
OpExtra(op) ==
    CASE op = QOI_OP_RGB -> 3
      [] op = QOI_OP_RGBA -> 4
      [] Top2(op) = QOI_OP_LUMA -> 1
      [] OTHER -> 0

\* the pixel an opcode at src[pos + 1] yields from self.state (all its bytes present)
OpPixel(self, src, pos) ==
    LET op == src[pos + 1]
    IN  CASE op = QOI_OP_RGB ->
               Pixel(src[pos + 2], src[pos + 3], src[pos + 4], self.state.a)
          [] op = QOI_OP_RGBA ->
               Pixel(src[pos + 2], src[pos + 3], src[pos + 4], src[pos + 5])
          [] OTHER ->
               CASE Top2(op) = QOI_OP_INDEX -> self.buffer[op]
                 [] Top2(op) = QOI_OP_DIFF -> ApplyDiff(self.state, op)
                 [] Top2(op) = QOI_OP_LUMA -> ApplyLuma(self.state, LumaDg(op), src[pos + 2])
                 [] OTHER -> self.state

\* One pass of the body of `for pix in img.iter_mut().take(num_pixels)`.
\* lp carries self, run, pos, img and err ("" while no read has failed).
\* (DecodeStep_ShortReadOk: `read` in place of `read_exact`, a short read going on
\* with the pixel unchanged.)
DecodeStep_ShortReadOk(src, lp) ==
    IF lp.run > 0
    THEN [lp EXCEPT !.run = lp.run - 1, !.img = Append(lp.img, lp.self.state)]
    ELSE IF lp.pos + 1 > Len(src) \/ lp.pos + 1 + OpExtra(src[lp.pos + 1]) > Len(src)
    THEN [lp EXCEPT !.pos = Len(src), !.img = Append(lp.img, lp.self.state)]
    ELSE LET op == src[lp.pos + 1]
             px == OpPixel(lp.self, src, lp.pos)
         IN  [self |-> [state |-> px, buffer |-> CachePut(lp.self.buffer, px)],
              run |-> IF op \notin {QOI_OP_RGB, QOI_OP_RGBA} /\ Top2(op) = QOI_OP_RUN
                      THEN Low6(op) ELSE 0,
              pos |-> lp.pos + 1 + OpExtra(op),
              img |-> Append(lp.img, px),
              err |-> ""]
DecodeStep(src, lp) ==
    IF lp.run > 0
    THEN [lp EXCEPT !.run = lp.run - 1, !.img = Append(lp.img, lp.self.state)]
    ELSE IF lp.pos + 1 > Len(src)
    THEN [lp EXCEPT !.err = "IoError"]
    ELSE LET op == src[lp.pos + 1]
         IN  IF lp.pos + 1 + OpExtra(op) > Len(src)
             THEN [lp EXCEPT !.err = "IoError", !.pos = lp.pos + 1]
             ELSE IF op \notin {QOI_OP_RGB, QOI_OP_RGBA}
                     /\ Top2(op) \notin {QOI_OP_INDEX, QOI_OP_DIFF, QOI_OP_LUMA, QOI_OP_RUN}
             THEN [lp EXCEPT !.err = "DecodingError", !.pos = lp.pos + 1]
             ELSE LET px == OpPixel(lp.self, src, lp.pos)
                  IN  [self |-> [state |-> px, buffer |-> CachePut(lp.self.buffer, px)],
                       run |-> IF op \notin {QOI_OP_RGB, QOI_OP_RGBA} /\ Top2(op) = QOI_OP_RUN
                               THEN Low6(op) ELSE 0,
                       pos |-> lp.pos + 1 + OpExtra(op),
                       img |-> Append(lp.img, px),
                       err |-> ""]

RECURSIVE DecodeLoop(_, _, _)
DecodeLoop(src, lp, left) ==
    IF left = 0 \/ lp.err # ""
    THEN lp
    ELSE DecodeLoop(src, DecodeStep(src, lp), left - 1)

\* The loop of decode on src after k passes (k pixels written, or a failed read),
\* from the state decode enters it in: self reset, run = 0, 14 bytes read.
LoopAfter(src, k) ==
    DecodeLoop(src,
               [self |-> DecoderReset(DecoderNew), run |-> 0, pos |-> HeaderLen,
                img |-> <<>>, err |-> ""],
               k)

\* `header.width * header.height` in u32: whether it overflows, and the wrapped value
MulOverflows(w, h) == MulU64(w, h)[1] # 0 \/ MulU64(w, h)[2] # 0
WrappingMulU32(w, h) == <<MulU64(w, h)[3], MulU64(w, h)[4]>>
\* `as usize`
AsUsize(v) == v[1] * U16 + v[2]

\* Decoder::decode on the byte source src.  overflow_checks is the build's setting
\* for integer overflow: a panic when on (debug profile), wrapping when off (release).
Decode(self, src, overflow_checks) ==
    LET s0 == DecoderReset(self)
        hp == HeaderFromBytes(SubSeq(src, 1, HeaderLen))
    IN  IF Len(src) < HeaderLen
        THEN DecodeResult("IoError", "header", NoHeader, <<>>, Len(src), 0, s0)
        ELSE IF ~hp.ok
        THEN DecodeResult("HeaderParseError", hp.err.what, NoHeader, <<>>, HeaderLen, 0, s0)
        ELSE IF overflow_checks /\ MulOverflows(hp.header.width, hp.header.height)
        THEN DecodeResult("Panic", "multiply with overflow", NoHeader, <<>>, HeaderLen, 0, s0)
        ELSE LET num_pixels == AsUsize(WrappingMulU32(hp.header.width, hp.header.height))
                 lp == DecodeLoop(src,
                                  [self |-> s0, run |-> 0, pos |-> HeaderLen,
                                   img |-> <<>>, err |-> ""],
                                  num_pixels)
             IN  IF lp.err # ""
                 THEN DecodeResult(lp.err, "opcode", NoHeader, <<>>, lp.pos, lp.run, lp.self)
                 ELSE DecodeResult("Ok", "-", hp.header, lp.img, lp.pos, lp.run, lp.self)

----------------------------------------------------------------------------
(* The callers: the byte streams the exploration feeds and decodes. *)

\* the 14 canonical bytes of a header: magic, big-endian width and height, the two codes
HeaderBytes(w, h, ch, cs) == Magic \o ToBeBytes(w) \o ToBeBytes(h) \o <<ch, cs>>

\* headers of the streams fed to the StreamDecoder: 1x1, 2x2, zero width, zero
\* height, and 65536 x 65536 (a pixel count of 2^32)
StreamHeaders ==
    { HeaderBytes(<<0, 1>>, <<0, 1>>, 3, 0),
      HeaderBytes(<<0, 2>>, <<0, 2>>, 4, 1),
      HeaderBytes(<<0, 0>>, <<0, 2>>, 3, 0),
      HeaderBytes(<<0, 2>>, <<0, 0>>, 4, 0),
      HeaderBytes(<<1, 0>>, <<1, 0>>, 4, 0) }

\* a byte that is wrong at header position pos (0-based), where there is one
BadHeaderBytes(pos) ==
    CASE pos \in 0..3 -> {120}
      [] pos = 12 -> {5}
      [] pos = 13 -> {2}
      [] OTHER -> {}

\* opcode bytes a caller sends: RGB, RGBA, INDEX 0, INDEX 53, DIFF (-2,-2,-2),
\* LUMA (dg = +1), RUN of 1, RUN of 3
OpBytes == {254, 255, 0, 53, 64, 161, 192, 194}

\* bytes a caller sends inside an opcode, by the decoder's position in it; all of
\* them are opcode values too
DataBytes(st) ==
    IF st.o \in {QOI_OP_RGB, QOI_OP_RGBA}
    THEN CASE st.c = 0 -> IF st.o = QOI_OP_RGB THEN {22, 200} ELSE {22}
           [] st.c = 1 -> {10}
           [] st.c = 2 -> {20}
           [] OTHER -> {0, 255}
    ELSE {15}

\* bytes after the last pixel (QOI's end marker is seven 0x00 and one 0x01)
TrailBytes == {0, 1}

\* failed feed calls since new()/reset()
nerr == Len(input) - Len(hdr)

\* errors a caller runs into before it resets
MaxErrs == 1

\* the bytes the caller may feed next
FeedChoices ==
    IF Len(hdr) < HeaderLen
    THEN { h[Len(hdr) + 1] : h \in { x \in StreamHeaders : SubSeq(x, 1, Len(hdr)) = hdr } }
         \cup (IF nerr < MaxErrs THEN BadHeaderBytes(Len(hdr)) ELSE {})
    ELSE IF nerr > 0 THEN {}
    ELSE IF sdec.state.tag = "Finished"
    THEN (IF ntrail < MaxTrail THEN TrailBytes ELSE {})
    ELSE IF sdec.state.tag = "ParsingOp" /\ sdec.state.c # -1
    THEN DataBytes(sdec.state)
    ELSE IF nops < MaxOps THEN OpBytes ELSE {}

\* the pixels of a returned PixelsIter, drained by the caller
RECURSIVE Drain(_, _)
Drain(count, pixel) == IF count = 0 THEN <<>> ELSE <<pixel>> \o Drain(count - 1, pixel)

\* Option<Pixel>
NonePixel == [some |-> FALSE, v |-> PixelDefault]
SomePixel(p) == [some |-> TRUE, v |-> p]

\* struct PixelsIter { count: u8, pixel: Pixel } and PixelsIter::new
NoIter == [live |-> FALSE, count |-> 0, pixel |-> PixelDefault]
PixelsIterNew(count, pixel) == [live |-> TRUE, count |-> count, pixel |-> pixel]

\* Iterator::next for PixelsIter: the iterator after the call and what the call returned
\* (IterNext_StopsAtOne: the test is `count > 1`, the last pixel is never yielded)
IterNext_StopsAtOne(it) ==
    IF it.count > 1
    THEN [it |-> [it EXCEPT !.count = it.count - 1], item |-> SomePixel(it.pixel)]
    ELSE [it |-> it, item |-> NonePixel]
IterNext(it) ==
    IF it.count > 0
    THEN [it |-> [it EXCEPT !.count = it.count - 1], item |-> SomePixel(it.pixel)]
    ELSE [it |-> it, item |-> NonePixel]

\* Iterator::size_hint for PixelsIter: (c, Some(c))
SizeHint(it) == [lower |-> it.count, upper |-> [some |-> TRUE, v |-> it.count]]

NotMade == [by |-> "-", op |-> 0, count |-> 0, pixel |-> PixelDefault]

IterInit ==
    /\ iter = NoIter
    /\ made = NotMade
    /\ taken = <<>>

StreamInit ==
    /\ sdec = StreamNew
    /\ out = NoOutput
    /\ outs = <<>>
    /\ lastop = "new"
    /\ fresh = TRUE
    /\ input = <<>>
    /\ hdr = <<>>
    /\ emitted = <<>>
    /\ nops = 0
    /\ ntrail = 0
    /\ nresets = 0
    /\ resetFrom = "-"

DecoderInit ==
    /\ dec = DecoderNew
    /\ d_src = <<>>
    /\ d_res = NoResult
    /\ d_calls = 0

NoParse ==
    [done |-> FALSE, r |-> [ok |-> FALSE, err |-> HeaderParseError("-"), header |-> NoHeader]]

HeaderIdle ==
    /\ h_data = HeaderBytes(<<0, 0>>, <<0, 0>>, 3, 0)
    /\ h_in = [magic |-> Magic, w |-> <<0, 0>>, h |-> <<0, 0>>, ch |-> 3, cs |-> 0]
    /\ h_res = NoParse

\* sdec.feed(byte), the caller draining the iterator of a Pixels output
FeedWith(byte) ==
    LET r == Feed(sdec, byte)
    IN  /\ sdec' = r.d
        /\ out' = r.out
        /\ outs' = Append(outs, r.out)
        /\ lastop' = "feed"
        /\ input' = Append(input, byte)
        /\ hdr' = IF IsErr(r.out) THEN hdr ELSE Append(hdr, byte)
        /\ emitted' = IF r.out.tag = "Pixels"
                      THEN emitted \o Drain(r.out.n, r.out.px)
                      ELSE emitted
        /\ nops' = IF Len(hdr) >= HeaderLen /\ sdec.state = ParsingOp(0, -1)
                   THEN nops + 1 ELSE nops
        /\ ntrail' = IF sdec.state.tag = "Finished" THEN ntrail + 1 ELSE ntrail
        /\ resetFrom' = "-"
        /\ UNCHANGED <<fresh, nresets, dvars, hvars, ivars>>

FeedByte == \E byte \in FeedChoices : FeedWith(byte)

\* sdec.reset()
ResetCall ==
    /\ nresets < MaxResets
    /\ sdec' = StreamReset(sdec)
    /\ out' = NoOutput
    /\ outs' = <<>>
    /\ lastop' = "reset"
    /\ fresh' = FALSE
    /\ input' = <<>>
    /\ hdr' = <<>>
    /\ emitted' = <<>>
    /\ nops' = 0
    /\ ntrail' = 0
    /\ nresets' = nresets + 1
    /\ resetFrom' = IF IsErr(out) THEN "Error"
                    ELSE IF sdec.state.tag = "ParsingOp" /\ sdec.state.c # -1 THEN "MidOp"
                    ELSE sdec.state.tag
    /\ UNCHANGED <<dvars, hvars, ivars>>

Init == StreamInit /\ DecoderInit /\ HeaderIdle /\ IterInit
Next == FeedByte \/ ResetCall
Spec == Init /\ [][Next]_vars

----------------------------------------------------------------------------
(* The chunked Decoder's callers: one Decoder object, decode called on sources. *)

\* opcodes of the generated sources: INDEX 53, DIFF (-2,-2,-2), RUN of 3
SrcOps == { <<53>>, <<64>>, <<194>> }

RECURSIVE OpStreams(_)
OpStreams(n) ==
    IF n = 0
    THEN { <<>> }
    ELSE LET prev == OpStreams(n - 1)
         IN  prev \cup { x \in { s \o o : s \in prev, o \in SrcOps } : Len(x) <= n }

H1x1 == HeaderBytes(<<0, 1>>, <<0, 1>>, 3, 0)
H2x2 == HeaderBytes(<<0, 2>>, <<0, 2>>, 4, 1)
\* 2147483649 x 2: the product is 2^32 + 2
HWrap2 == HeaderBytes(<<32768, 1>>, <<0, 2>>, 4, 0)

\* sources with the longer opcodes, an INDEX of a slot written before, a run
\* that is cut by the end of the image, and trailing bytes
LongSources ==
    { H2x2 \o <<254, 22, 10, 20>> \o <<194>>,
      H2x2 \o <<255, 22, 10, 20, 0>> \o <<53>> \o <<0>> \o <<64>>,
      H2x2 \o <<255, 200, 10, 20, 255>> \o <<160, 15>> \o <<254, 22, 10, 20>> \o <<194>>,
      H1x1 \o <<194>> \o <<0, 0, 0, 0, 0, 0, 0, 1>>,
      H1x1 \o <<254, 200, 10, 20>>,
      HWrap2 \o <<64>> \o <<160, 15>>,
      HWrap2 \o <<194>> }

\* sources whose header is rejected, or that hold no pixel
HeaderOnlySources ==
    { HeaderBytes(<<0, 0>>, <<0, 2>>, 3, 0),
      HeaderBytes(<<0, 2>>, <<0, 0>>, 4, 0) \o <<64>>,
      HeaderBytes(<<1, 0>>, <<1, 0>>, 4, 0),
      HeaderBytes(<<1, 0>>, <<1, 0>>, 4, 0) \o <<194>>,
      HeaderBytes(<<0, 1>>, <<0, 1>>, 5, 0) \o <<64>>,
      HeaderBytes(<<0, 1>>, <<0, 1>>, 3, 2) \o <<64>>,
      HeaderBytes(<<0, 1>>, <<0, 1>>, 5, 2),
      <<120>> \o SubSeq(HeaderBytes(<<0, 1>>, <<0, 1>>, 5, 2), 2, HeaderLen) }

\* every proper prefix of two of the long sources: the source ends inside the
\* header or inside an opcode
TruncatedSources ==
    UNION { { SubSeq(x, 1, k) : k \in 0..(Len(x) - 1) } :
            x \in { H2x2 \o <<255, 22, 10, 20, 0>> \o <<160, 15>>,
                    H2x2 \o <<64>> \o <<254, 22, 10, 20>> } }

Sources ==
    { h \o s : h \in {H1x1, H2x2}, s \in OpStreams(MaxSrcLen) }
    \cup LongSources \cup HeaderOnlySources \cup TruncatedSources

\* dec.decode(&mut src) under either build profile
DecodeCall ==
    /\ \E src \in Sources, overflow_checks \in BOOLEAN :
          LET r == Decode(dec, src, overflow_checks)
          IN  /\ d_res' = r
              /\ dec' = r.self
              /\ d_src' = src
    /\ d_calls' = IF d_calls = 0 THEN 1 ELSE 2
    /\ UNCHANGED <<svars, hvars, ivars>>

NextDecoder == DecodeCall
SpecDecoder == Init /\ [][NextDecoder]_vars

----------------------------------------------------------------------------
(* Header::from_bytes on its own: 14 bytes written from chosen fields. *)

\* halves of the u32 fields: 0, 1, 0x0100, 0xFFFF
HalfSamples == {0, 1, 256, 65535}
MagicSamples ==
    { Magic, <<120, 111, 105, 102>>, <<113, 111, 105, 70>>, <<113, 105, 111, 102>> }

HeaderInit ==
    /\ \E m \in MagicSamples, w1 \in HalfSamples, w2 \in HalfSamples,
          h1 \in HalfSamples, h2 \in HalfSamples, ch \in {2, 3, 4, 5}, cs \in {0, 1, 2} :
          /\ h_in = [magic |-> m, w |-> <<w1, w2>>, h |-> <<h1, h2>>, ch |-> ch, cs |-> cs]
          /\ h_data = m \o ToBeBytes(<<w1, w2>>) \o ToBeBytes(<<h1, h2>>) \o <<ch, cs>>
    /\ h_res = NoParse

\* Header::from_bytes(&h_data)
ParseHeader ==
    /\ ~h_res.done
    /\ h_res' = [done |-> TRUE, r |-> HeaderFromBytes(h_data)]
    /\ UNCHANGED <<svars, dvars, h_data, h_in, ivars>>

InitHeader == StreamInit /\ DecoderInit /\ HeaderInit /\ IterInit
NextHeader == ParseHeader
SpecHeader == InitHeader /\ [][NextHeader]_vars

----------------------------------------------------------------------------
(* The opcodes on their own: a 16 x 16 image fed to the StreamDecoder with      *)
(* opcode and data bytes at the ends of their ranges.                           *)

\* opcodes a caller sends after the header of the probed image
MaxProbeOps == 2

HProbe == HeaderBytes(<<0, 16>>, <<0, 16>>, 4, 0)

\* RGB, RGBA, INDEX 43 (the slot of (255,0,255,255)), DIFF (-2,-2,-2),
\* DIFF (+1,+1,+1), LUMA dg = -32, LUMA dg = +31, RUN of 8
ProbeOpBytes == {254, 255, 43, 64, 127, 128, 191, 199}

\* inside RGB the colours (0,0,0) and (255,0,0); inside RGBA the colour (255,0,255)
\* with alpha 0 and 255; as second byte of a LUMA the 4-bit fields (0,15) and (15,8)
ProbeData(st) ==
    CASE st.o = QOI_OP_RGB -> IF st.c = 0 THEN {0, 255} ELSE {0}
      [] st.o = QOI_OP_RGBA -> IF st.c = 3 THEN {0, 255} ELSE IF st.c = 1 THEN {0} ELSE {255}
      [] OTHER -> {15, 248}

ProbeChoices ==
    IF Len(input) < HeaderLen
    THEN { HProbe[Len(input) + 1] }
    ELSE IF sdec.state.tag = "ParsingOp" /\ sdec.state.c # -1
    THEN ProbeData(sdec.state)
    ELSE IF sdec.state = ParsingOp(0, -1) /\ nops < MaxProbeOps
    THEN ProbeOpBytes
    ELSE {}

ProbeFeed == \E byte \in ProbeChoices : FeedWith(byte)

NextOps == ProbeFeed
SpecOps == Init /\ [][NextOps]_vars

----------------------------------------------------------------------------
(* A caller that never stops feeding one StreamDecoder: a header of a non-empty
   image, then opcode bytes for ever.  The histories (input, outs, emitted) are
   not kept here, so that the states are finitely many. *)

\* cur_pix is only ever added to and compared for equality with the target
\* (src/src/stream/dec.rs:404-405): every value above the targets of LiveHeaders
\* behaves alike, and is kept as LivePixCap
LivePixCap == 8

\* headers of images of 1 and of 4 pixels
LiveHeaders == { HeaderBytes(<<0, 1>>, <<0, 1>>, 3, 0), HeaderBytes(<<0, 2>>, <<0, 2>>, 4, 1) }

\* INDEX 0, DIFF (0,0,0), RUN of 1, RUN of 2, RGB
LiveOpBytes == {0, 106, 192, 193, 254}

\* inside RGB the colours (0,0,0) and (255,0,0)
LiveData(st) == IF st.c = 0 THEN {0, 255} ELSE {0}

LiveChoices ==
    IF Len(hdr) < HeaderLen
    THEN { h[Len(hdr) + 1] : h \in { x \in LiveHeaders : SubSeq(x, 1, Len(hdr)) = hdr } }
    ELSE IF sdec.state.tag = "Finished"
    THEN TrailBytes
    ELSE IF sdec.state.tag = "ParsingOp" /\ sdec.state.c # -1
    THEN LiveData(sdec.state)
    ELSE LiveOpBytes

CapPix(d) == [d EXCEPT !.cur_pix = IF @ > LivePixCap THEN LivePixCap ELSE @]

\* sdec.feed(byte), the iterator of a Pixels output dropped
LiveFeed ==
    \E byte \in LiveChoices :
        LET r == Feed(sdec, byte)
        IN  /\ sdec' = CapPix(r.d)
            /\ out' = r.out
            /\ lastop' = "feed"
            /\ hdr' = IF Len(hdr) < HeaderLen THEN Append(hdr, byte) ELSE hdr
            /\ UNCHANGED <<outs, input, emitted, nops, ntrail, resetFrom, fresh, nresets,
                           dvars, hvars, ivars>>

NextLive == LiveFeed
\* the caller's loop over the bytes of its source never gives up
SpecLive == Init /\ [][NextLive]_vars /\ WF_vars(LiveFeed)

----------------------------------------------------------------------------
(* A caller that keeps the PixelsIter of a Pixels output and calls next() on
   it, feeding on in between: the iterator owns its count and its pixel and
   borrows nothing from the decoder. *)

\* opcodes a caller sends after the header
MaxIterOps == 2
\* next() calls made on an iterator that has already answered None
MaxNone == 2

\* INDEX 0, DIFF (0,0,0), RUN of 1, RUN of 3, RUN of 62, RGB
IterOpBytes == {0, 106, 192, 194, 253, 254}

\* PixelsIter::new is private to stream/dec.rs; within the module any u8 count can be
\* given: the ends of the range, and 1
IterCounts == {0, 1, 255}
IterPixels == {PixelDefault, Pixel(255, 0, 255, 255)}

IterChoices ==
    IF Len(input) < HeaderLen
    THEN { HProbe[Len(input) + 1] }
    ELSE IF sdec.state.tag = "ParsingOp" /\ sdec.state.c # -1
    THEN LiveData(sdec.state)
    ELSE IF sdec.state = ParsingOp(0, -1) /\ nops < MaxIterOps
    THEN IterOpBytes
    ELSE {}

\* sdec.feed(byte), the caller keeping the iterator of a Pixels output in place of
\* the one it held
IterFeed ==
    \E byte \in IterChoices :
        LET r == Feed(sdec, byte)
            op == IF sdec.state.tag = "ParsingOp" /\ sdec.state.c # -1
                  THEN sdec.state.o ELSE byte
        IN  /\ sdec' = r.d
            /\ out' = r.out
            /\ lastop' = "feed"
            /\ input' = Append(input, byte)
            /\ hdr' = IF IsErr(r.out) THEN hdr ELSE Append(hdr, byte)
            /\ nops' = IF Len(hdr) >= HeaderLen /\ sdec.state = ParsingOp(0, -1)
                       THEN nops + 1 ELSE nops
            /\ IF r.out.tag = "Pixels"
               THEN /\ iter' = PixelsIterNew(r.out.n, r.out.px)
                    /\ made' = [by |-> "feed", op |-> op, count |-> r.out.n, pixel |-> r.out.px]
                    /\ taken' = <<>>
               ELSE UNCHANGED ivars
            /\ UNCHANGED <<outs, emitted, ntrail, resetFrom, fresh, nresets, dvars, hvars>>

\* PixelsIter::new(count, pixel) called from within the module, before any feed
IterNew ==
    /\ ~iter.live
    /\ Len(input) = 0
    /\ \E count \in IterCounts, pixel \in IterPixels :
          /\ iter' = PixelsIterNew(count, pixel)
          /\ made' = [by |-> "new", op |-> 0, count |-> count, pixel |-> pixel]
    /\ taken' = <<>>
    /\ UNCHANGED <<svars, dvars, hvars>>

\* iter.next()
NextCall ==
    /\ iter.live
    /\ Len(taken) < made.count + MaxNone
    /\ LET r == IterNext(iter)
       IN  /\ iter' = r.it
           /\ taken' = Append(taken, r.item)
    /\ UNCHANGED <<made, svars, dvars, hvars>>

NextIter == IterFeed \/ IterNew \/ NextCall
SpecIter == Init /\ [][NextIter]_vars

----------------------------------------------------------------------------
(* Notions the properties below are stated with. *)

\* a <= b on u64 values
LeU64(a, b) ==
    \/ a[1] < b[1]
    \/ a[1] = b[1] /\ a[2] < b[2]
    \/ a[1] = b[1] /\ a[2] = b[2] /\ a[3] < b[3]
    \/ a[1] = b[1] /\ a[2] = b[2] /\ a[3] = b[3] /\ a[4] <= b[4]

\* width * height of the header held in the first 14 bytes of h, over the integers
PixelTarget(h) ==
    MulU64(ReadU32BE(h[5], h[6], h[7], h[8]), ReadU32BE(h[9], h[10], h[11], h[12]))

\* A valid QOI input: a header Header::from_bytes accepts, then opcodes that are
\* all complete and yield width * height pixels, the last one being the last byte
\* and no run reaching past the image.
ValidQoi(src) ==
    /\ Len(src) >= HeaderLen
    /\ HeaderFromBytes(SubSeq(src, 1, HeaderLen)).ok
    /\ ~MulOverflows(ReadU32BE(src[5], src[6], src[7], src[8]),
                     ReadU32BE(src[9], src[10], src[11], src[12]))
    /\ LET r == Decode(DecoderNew, src, FALSE)
       IN  r.kind = "Ok" /\ r.pos = Len(src) /\ r.run = 0

\* The reference decoding of QOI (qoi_decode of the format's reference
\* implementation): start pixel (0,0,0,255), an all-zero index of 64 slots, and
\* index[hash(px) % 64] = px after every opcode read.  Yields the first n pixels.
RECURSIVE RefPixels(_, _, _, _, _, _)
RefPixels(src, pos, px, index, run, n) ==
    IF n = 0 \/ (run = 0 /\ (pos + 1 > Len(src) \/ pos + 1 + OpExtra(src[pos + 1]) > Len(src)))
    THEN <<>>
    ELSE IF run > 0
    THEN <<px>> \o RefPixels(src, pos, px, index, run - 1, n - 1)
    ELSE LET op == src[pos + 1]
             b1 == src[pos + 2]
             np == CASE op = 254 -> Pixel(b1, src[pos + 3], src[pos + 4], px.a)
                     [] op = 255 -> Pixel(b1, src[pos + 3], src[pos + 4], src[pos + 5])
                     [] op < 64 -> index[op]
                     [] op < 128 -> Pixel((px.r + ((op \div 16) % 4) + 254) % 256,
                                          (px.g + ((op \div 4) % 4) + 254) % 256,
                                          (px.b + (op % 4) + 254) % 256, px.a)
                     [] op < 192 -> LET vg == (op % 64) - 32
                                    IN  Pixel((px.r + vg - 8 + (b1 \div 16) + 512) % 256,
                                              (px.g + vg + 512) % 256,
                                              (px.b + vg - 8 + (b1 % 16) + 512) % 256, px.a)
                     [] OTHER -> px
             slot == (np.r * 3 + np.g * 5 + np.b * 7 + np.a * 11) % 64
         IN  <<np>> \o RefPixels(src, pos + 1 + OpExtra(op), np,
                                 [index EXCEPT ![slot] = np],
                                 IF op >= 192 /\ op < 254 THEN op % 64 ELSE 0, n - 1)

RefDecode(src) ==
    RefPixels(src, HeaderLen, Pixel(0, 0, 0, 255), [i \in 0..63 |-> Pixel(0, 0, 0, 0)], 0,
              AsUsize(<<PixelTarget(src)[3], PixelTarget(src)[4]>>))

----------------------------------------------------------------------------
(* The properties. *)

\* C1: for a valid QOI input fed byte by byte to a StreamDecoder as
\* StreamDecoder::new() built it, the pixels drained from the returned iterators
\* are, in order, the pixel sequence Decoder::decode returns for the same bytes.
C1_StreamEqualsChunked ==
    (fresh /\ nerr = 0 /\ ValidQoi(input)) =>
        emitted = Decode(DecoderNew, input, FALSE).img

\* a 1x1 image of one DIFF opcode: the new StreamDecoder yields alpha 0, decode 255
C1_Witness ==
    /\ fresh
    /\ input = H1x1 \o <<64>>
    /\ emitted = <<Pixel(254, 254, 254, 0)>>
    /\ Decode(DecoderNew, input, FALSE).img = <<Pixel(254, 254, 254, 255)>>

\* C2: on every valid QOI input both decoders yield the pixels of the reference
\* decoding (start pixel (0,0,0,255), zeroed index, slot rewritten after every opcode).
C2_MatchesReference ==
    (nerr = 0 /\ ValidQoi(input)) =>
        /\ Decode(DecoderNew, input, FALSE).img = RefDecode(input)
        /\ emitted = RefDecode(input)

\* after reset(), a 2x2 image of a RUN of 3 and INDEX 53: the StreamDecoder's
\* fourth pixel is the untouched slot, the reference's is the pixel of the run
C2_Witness ==
    /\ ~fresh
    /\ input = H2x2 \o <<194, 53>>
    /\ emitted[4] = Pixel(0, 0, 0, 0)
    /\ RefDecode(input)[4] = Pixel(0, 0, 0, 255)
    /\ Decode(DecoderNew, input, FALSE).img = RefDecode(input)

\* C3: Decoder::decode returns Ok with exactly width * height pixels, or an error
\* and no pixels; nothing else.
C3_AllOrNothing ==
    d_res.done =>
        /\ d_res.kind \in {"Ok", "HeaderParseError", "DecodingError", "IoError"}
        /\ d_res.kind = "Ok" =>
               U64OfNat(Len(d_res.img)) = MulU64(d_res.header.width, d_res.header.height)
        /\ d_res.kind # "Ok" => d_res.img = <<>>

\* a header of 65536 x 65536 decoded to Ok with no pixel at all
C3_Witness ==
    /\ d_res.done
    /\ d_res.kind = "Ok"
    /\ d_res.header.width = <<1, 0>>
    /\ d_res.header.height = <<1, 0>>
    /\ d_res.img = <<>>

\* C4: once the header is accepted the StreamDecoder never yields more than
\* width * height pixels, and it is Finished exactly when it has yielded that many.
C4_ExactPixelCount ==
    (nerr = 0 /\ Len(hdr) >= HeaderLen) =>
        /\ LeU64(U64OfNat(Len(emitted)), PixelTarget(hdr))
        /\ (U64OfNat(Len(emitted)) = PixelTarget(hdr)) <=> (sdec.state.tag = "Finished")

\* a 1x1 image whose only opcode is a RUN of 3: three pixels out, not Finished
C4_Witness ==
    /\ input = H1x1 \o <<194>>
    /\ Len(emitted) = 3
    /\ sdec.cur_pix = 3
    /\ sdec.state = ParsingOp(0, -1)

\* C5: the last-pixel seed of the first opcode is (0,0,0,255) in every decoder: in
\* a StreamDecoder that has been fed nothing since new() or reset(), and in the
\* Decoder when decode starts.
C5_SeedPixel ==
    /\ sdec.state.tag = "NotStarted" => sdec.last_pixel = Pixel(0, 0, 0, 255)
    /\ DecoderReset(dec).state = Pixel(0, 0, 0, 255)

\* the decoder StreamDecoder::new() returns, fed nothing yet
C5_Witness ==
    /\ lastop = "new"
    /\ sdec.state = NotStarted
    /\ sdec.last_pixel = Pixel(0, 0, 0, 0)

\* C6: whatever state reset() is called in, it leaves state NotStarted, last pixel
\* (0,0,0,255), 64 index slots of (0,0,0,0), a zero scratch buffer, no pixel target
\* and a running count of 0.
\* The first conjunct applies reset() to every reachable state, the second looks
\* at the states the explored reset() calls left.
Cleared(d) ==
    /\ d.state = NotStarted
    /\ d.last_pixel = Pixel(0, 0, 0, 255)
    /\ \A i \in 0..63 : d.dec_buffer[i] = Pixel(0, 0, 0, 0)
    /\ d.buffer = <<0, 0, 0, 0>>
    /\ ~d.num_pix.some
    /\ d.cur_pix = 0

C6_ResetClearsAll ==
    /\ Cleared(StreamReset(sdec))
    /\ lastop = "reset" => Cleared(sdec)

\* reset() was called in the middle of an opcode
C6_Witness == lastop = "reset" /\ resetFrom = "MidOp"

\* C7: what decode returns, and the object it leaves, depend on the source alone:
\* a call on a Decoder that has decoded before (successfully or not) gives what
\* the same call gives on a new Decoder.
C7_DecodeIgnoresHistory ==
    d_res.done => \E oc \in BOOLEAN : d_res = Decode(DecoderNew, d_src, oc)

\* a second decode on the same object returned pixels
C7_Witness == d_calls = 2 /\ d_res.kind = "Ok" /\ Len(d_res.img) > 1

\* C8: in state Finished every feed, of any byte, returns Finished and changes
\* nothing of the decoder, and only reset() leaves Finished.
\* The decoder that enters Finished is tried with each of the 256 bytes; the feeds
\* that follow leave it as it is, so it is the decoder of every Finished state.
C8_FinishedAbsorbs ==
    [][ /\ (sdec.state.tag # "Finished" /\ sdec'.state.tag = "Finished") =>
              \A b \in 0..255 : Feed(sdec', b) = [d |-> sdec', out |-> OutFinished]
        /\ sdec.state.tag = "Finished" =>
              /\ lastop' = "feed" => (out' = OutFinished /\ sdec' = sdec)
              /\ sdec'.state.tag # "Finished" => lastop' = "reset" ]_vars

\* two bytes were fed after the image's last pixel, both answered Finished
C8_Witness ==
    /\ sdec.state.tag = "Finished"
    /\ out.tag = "Finished"
    /\ ntrail = 2
    /\ Len(emitted) > 0

\* C9: Header::from_bytes succeeds exactly when the magic is "qoif", byte 12 is 3
\* or 4 and byte 13 is 0 or 1, whatever width and height; otherwise it fails with
\* a HeaderParseError for the first invalid field in the order magic, channels,
\* colorspace.
C9_HeaderValidation ==
    h_res.done =>
        LET magicOk == SubSeq(h_data, 1, 4) = <<113, 111, 105, 102>>
            chOk == h_data[13] \in {3, 4}
            csOk == h_data[14] \in {0, 1}
        IN  /\ h_res.r.ok <=> (magicOk /\ chOk /\ csOk)
            /\ ~h_res.r.ok =>
                   /\ h_res.r.err.kind = "HeaderParseError"
                   /\ h_res.r.err.what = IF ~magicOk THEN "magic"
                                         ELSE IF ~chOk THEN "channels"
                                         ELSE "colorspace"

\* a header with a good magic and both codes invalid was rejected for its channels
C9_Witness ==
    /\ h_res.done
    /\ SubSeq(h_data, 1, 4) = Magic
    /\ h_data[13] = 5
    /\ h_data[14] = 2
    /\ h_res.r.err.what = "channels"

\* C10: the 14 canonical bytes of any width, height, channels in {3, 4} and
\* colorspace in {0, 1} parse to a Header with exactly those four values.
C10_HeaderRoundTrip ==
    (h_res.done /\ h_in.magic = Magic /\ h_in.ch \in {3, 4} /\ h_in.cs \in {0, 1}) =>
        /\ h_res.r.ok
        /\ h_res.r.header.width = h_in.w
        /\ h_res.r.header.height = h_in.h
        /\ ChannelsAsU8(h_res.r.header.channels) = h_in.ch
        /\ ColorspaceAsU8(h_res.r.header.colorspace) = h_in.cs

\* a header of width 0xFFFF0100 and height 1 came back from the parser
C10_Witness ==
    /\ h_res.done
    /\ h_res.r.ok
    /\ h_in.w = <<65535, 256>>
    /\ h_in.h = <<0, 1>>
    /\ h_res.r.header.width = <<65535, 256>>

\* C11: the first byte fed after new()/reset() is taken as header byte 0, and among
\* the first four bytes feed returns HeaderParseError on the first one that is not
\* the byte of "qoif" at its position: never before it, never later.
\* The second conjunct tries each of the 256 bytes at every magic position reached.
C11_MagicMismatchAtOnce ==
    LET qoif == <<113, 111, 105, 102>>
        n == Len(input)
    IN  /\ (lastop = "feed" /\ n \in 1..4 /\ \A i \in 1..(n - 1) : input[i] = qoif[i]) =>
               /\ IsErr(out) <=> input[n] # qoif[n]
               /\ IsErr(out) => out.tag = "HeaderParseError"
               /\ ~IsErr(out) => sdec.state = ParsingHeader(n)
        /\ (n < 4 /\ \A i \in 1..n : input[i] = qoif[i]) =>
               \A b \in 0..255 :
                   LET r == Feed(sdec, b)
                   IN  /\ IsErr(r.out) <=> b # qoif[n + 1]
                       /\ IsErr(r.out) => r.out = ErrHeader("magic")
                       /\ ~IsErr(r.out) => r.d.state = ParsingHeader(n + 1)

\* after reset(), "qo" was accepted and the third byte 'x' rejected at once
C11_Witness ==
    /\ ~fresh
    /\ lastop = "feed"
    /\ input = <<113, 111, 120>>
    /\ out = ErrHeader("magic")

ProbeBytes ==
    {0, 1, 2, 3, 4, 5, 53, 63, 64, 102, 105, 111, 113, 120, 127, 128, 161, 191, 192,
     194, 253, 254, 255}

\* what may follow a NeedMore(n) when the next feed of a decoder in state st
\* returns nxt without error
FollowsHint(n, st, nxt) ==
    IF n > 1
    THEN nxt = NeedMore(n - 1)
    ELSE \/ nxt.tag \in {"ImageWidthParsed", "ImageHeightParsed", "Pixels"}
         \/ nxt = NeedMore(4) /\ st = ParsingHeader(3)

\* C13: every NeedMore(n) has n in 1..4; when the next feed returns no error, it
\* returns NeedMore(n - 1) if n > 1, and if n = 1 it completes the field or the
\* opcode: a *Parsed event, Pixels, or NeedMore(4) as the magic completes.
\* The last conjunct tries each of the probe bytes as the next feed.
C13_NeedMoreCountsDown ==
    /\ out.tag = "NeedMore" => out.n \in 1..4
    /\ \A i \in 1..(Len(outs) - 1) :
           (outs[i].tag = "NeedMore" /\ ~IsErr(outs[i + 1])) =>
               \/ outs[i].n > 1 /\ outs[i + 1] = NeedMore(outs[i].n - 1)
               \/ outs[i].n = 1 /\ outs[i + 1].tag \in
                      {"ImageWidthParsed", "ImageHeightParsed", "ImageChannelParsed",
                       "ImageColorspaceParsed", "Pixels"}
               \/ /\ outs[i].n = 1 /\ outs[i + 1] = NeedMore(4)
                  /\ Cardinality({k \in 1..i : ~IsErr(outs[k])}) = 3
    /\ out.tag = "NeedMore" =>
           \A b \in ProbeBytes :
               LET r == Feed(sdec, b)
               IN  /\ r.out.tag = "NeedMore" => r.out.n \in 1..4
                   /\ ~IsErr(r.out) => FollowsHint(out.n, sdec.state, r.out)

\* an RGBA opcode counted 4, 3, 2, 1 and then gave its pixel
C13_Witness ==
    /\ Len(outs) = 19
    /\ outs[15] = NeedMore(4)
    /\ outs[16] = NeedMore(3)
    /\ outs[17] = NeedMore(2)
    /\ outs[18] = NeedMore(1)
    /\ outs[19].tag = "Pixels"

\* 14 bytes of a header with good magic and codes and a width or a height of 0
ZeroSizedHeader(h) ==
    /\ SubSeq(h, 1, 4) = <<113, 111, 105, 102>>
    /\ h[13] \in {3, 4}
    /\ h[14] \in {0, 1}
    /\ \/ SubSeq(h, 5, 8) = <<0, 0, 0, 0>>
       \/ SubSeq(h, 9, 12) = <<0, 0, 0, 0>>

\* C14: a valid header with width 0 or height 0 is accepted by both decoders and
\* gives no pixel: decode returns Ok with an empty image, and the StreamDecoder
\* returns neither an error nor Pixels, whatever is fed after it.
C14_ZeroSizedImage ==
    (Len(input) >= HeaderLen /\ ZeroSizedHeader(SubSeq(input, 1, HeaderLen))) =>
        /\ \A i \in 1..Len(outs) : ~IsErr(outs[i]) /\ outs[i].tag # "Pixels"
        /\ emitted = <<>>
        /\ \A b \in 0..255 : ~IsErr(Feed(sdec, b).out) /\ Feed(sdec, b).out.tag # "Pixels"
        /\ \A oc \in BOOLEAN :
               LET r == Decode(DecoderNew, input, oc)
               IN  /\ r.kind = "Ok"
                   /\ r.img = <<>>
                   /\ r.header.width = ReadU32BE(input[5], input[6], input[7], input[8])
                   /\ r.header.height = ReadU32BE(input[9], input[10], input[11], input[12])

\* a 2x0 header went through the StreamDecoder: Finished from the height on
C14_Witness ==
    /\ input = HeaderBytes(<<0, 2>>, <<0, 0>>, 4, 0)
    /\ outs[12] = ImageHeightParsed(<<0, 0>>)
    /\ outs[13] = OutFinished
    /\ out = OutFinished
    /\ Decode(DecoderNew, input, TRUE).kind = "Ok"

\* bytes of an opcode, by its first byte: RGB 4, RGBA 5, LUMA 2, the others 1
OpcodeLen(op) ==
    CASE op = 254 -> 4
      [] op = 255 -> 5
      [] op >= 128 /\ op < 192 -> 2
      [] OTHER -> 1

\* The number of bytes of src up to the last byte of the opcode that yields pixel
\* number `need`, counting from position pos (bytes already passed) with `got`
\* pixels so far; -1 when src ends before.  A RUN yields (op & 0x3f) + 1 pixels,
\* every other opcode one.
RECURSIVE OpcodeEnd(_, _, _, _)
OpcodeEnd(src, pos, got, need) ==
    IF got >= need
    THEN pos
    ELSE IF pos + 1 > Len(src) \/ pos + OpcodeLen(src[pos + 1]) > Len(src)
    THEN -1
    ELSE LET op == src[pos + 1]
         IN  OpcodeEnd(src, pos + OpcodeLen(op),
                       got + (IF op >= 192 /\ op < 254 THEN (op % 64) + 1 ELSE 1), need)

\* the end of the image in src: the end of the opcode that yields pixel number
\* width * height, for a valid header with 0 < width * height < 2^32; else -1
ImageEnd(src) ==
    IF /\ Len(src) >= HeaderLen
       /\ HeaderFromBytes(SubSeq(src, 1, HeaderLen)).ok
       /\ PixelTarget(src)[1] = 0 /\ PixelTarget(src)[2] = 0
       /\ PixelTarget(src) # <<0, 0, 0, 0>>
    THEN OpcodeEnd(src, HeaderLen, 0, PixelTarget(src)[3] * U16 + PixelTarget(src)[4])
    ELSE -1

\* C15: no byte after the opcode that yields pixel number width * height is read
\* or checked.  decode stops reading there and returns the same Ok on the input
\* cut there; the StreamDecoder answers Finished, with no pixel, to every byte
\* fed after it.
C15_TrailingBytesIgnored ==
    (nerr = 0 /\ ImageEnd(input) # -1) =>
        /\ \A oc \in BOOLEAN :
               LET r == Decode(DecoderNew, input, oc)
                   cut == Decode(DecoderNew, SubSeq(input, 1, ImageEnd(input)), oc)
               IN  /\ r.kind = "Ok"
                   /\ r.pos = ImageEnd(input)
                   /\ cut.kind = "Ok" /\ cut.img = r.img
        /\ (lastop = "feed" /\ Len(input) > ImageEnd(input)) => out = OutFinished
        /\ \A b \in 0..255 : Feed(sdec, b) = [d |-> sdec, out |-> OutFinished]

\* a 1x1 image whose RUN of 3 passes the image: the byte after it, a DIFF, is
\* decoded into a fourth pixel
C15_Witness ==
    /\ input = H1x1 \o <<194, 64>>
    /\ ImageEnd(input) = 15
    /\ out.tag = "Pixels"
    /\ Len(emitted) = 4
    /\ Decode(DecoderNew, input, FALSE).pos = 15

\* src ends before decode has what it needs: inside the 14 header bytes, or, for
\* a valid header with 0 < width * height < 2^32, before the last byte of the
\* opcode that yields pixel number width * height
EndsEarly(src) ==
    \/ Len(src) < HeaderLen
    \/ /\ HeaderFromBytes(SubSeq(src, 1, HeaderLen)).ok
       /\ PixelTarget(src)[1] = 0 /\ PixelTarget(src)[2] = 0
       /\ PixelTarget(src) # <<0, 0, 0, 0>>
       /\ ImageEnd(src) = -1

\* C16: when the source ends inside the header or inside or before an opcode that
\* decode needs, decode returns the source's I/O error and no pixels.
C16_ShortReadIsIoError ==
    (d_res.done /\ EndsEarly(d_src)) => (d_res.kind = "IoError" /\ d_res.img = <<>>)

\* the source ended after three of the five bytes of an RGBA opcode
C16_Witness ==
    /\ d_res.done
    /\ d_src = H2x2 \o <<255, 22, 10>>
    /\ d_res.kind = "IoError"
    /\ d_res.pos = 15

\* C17: a source of fewer than 14 bytes makes decode fail with a HeaderParseError.
C17_TruncatedHeaderError ==
    (d_res.done /\ Len(d_src) < HeaderLen) => d_res.kind = "HeaderParseError"

\* thirteen bytes of a good header were answered with the I/O error of read_exact
C17_Witness ==
    /\ d_res.done
    /\ d_src = SubSeq(H2x2, 1, 13)
    /\ d_res.kind = "IoError"
    /\ d_res.pos = 13

\* the passes decode makes over src: width * height for a valid header whose
\* product fits in u32, else 0
Passes(src) ==
    IF /\ Len(src) >= HeaderLen
       /\ HeaderFromBytes(SubSeq(src, 1, HeaderLen)).ok
       /\ PixelTarget(src)[1] = 0 /\ PixelTarget(src)[2] = 0
    THEN PixelTarget(src)[3] * U16 + PixelTarget(src)[4]
    ELSE 0

\* C18: in both decoders, after every completed opcode the index slot
\* hash(P) % 64 of the current last pixel P holds P.  For the StreamDecoder the
\* state after each feed that returned Pixels; for the Decoder every pass of the
\* loop of decode over the same bytes.
C18_CacheHoldsLastPixel ==
    /\ (lastop = "feed" /\ out.tag = "Pixels") =>
           sdec.dec_buffer[hash_pixel(sdec.last_pixel) % 64] = sdec.last_pixel
    /\ \A k \in 1..Passes(input) :
           LET lp == LoopAfter(input, k)
           IN  lp.err = "" => lp.self.buffer[hash_pixel(lp.self.state) % 64] = lp.self.state

\* after reset(), a 1x1 image of one RUN: the StreamDecoder's last pixel
\* (0,0,0,255) is not in its slot 53, the Decoder's is
C18_Witness ==
    /\ ~fresh
    /\ input = H1x1 \o <<192>>
    /\ out = Pixels(1, Pixel(0, 0, 0, 255))
    /\ sdec.dec_buffer[53] = Pixel(0, 0, 0, 0)
    /\ LoopAfter(input, 1).self.buffer[53] = Pixel(0, 0, 0, 255)

\* a RUN opcode byte: 0xC0..0xFD
IsRunByte(b) == b >= 192 /\ b <= 253

\* C19: a RUN byte with low 6 bits k makes both decoders yield the current pixel,
\* unchanged, k + 1 times, takes no further byte, and leaves the 64 index slots as
\* they were.  For the StreamDecoder the feed of a RUN byte at an opcode boundary;
\* for the Decoder every pass of the loop of decode that reads a RUN byte, and the
\* passes of its run (as many of the k + 1 as the image has room for).
C19_RunLeavesCacheAlone ==
    [][ lastop' = "feed" =>
          LET b == input'[Len(input')]
          IN  /\ (sdec.state = ParsingOp(0, -1) /\ IsRunByte(b)) =>
                    /\ out' = Pixels((b % 64) + 1, sdec.last_pixel)
                    /\ sdec'.last_pixel = sdec.last_pixel
                    /\ sdec'.dec_buffer = sdec.dec_buffer
                    /\ sdec'.state \in {ParsingOp(0, -1), Finished}
              /\ \A k \in 0..(Passes(input') - 1) :
                    LET a == LoopAfter(input', k)
                        run == input'[a.pos + 1] % 64
                    IN  (a.err = "" /\ a.run = 0 /\ a.pos < Len(input')
                         /\ IsRunByte(input'[a.pos + 1])) =>
                            \A j \in 1..(run + 1) :
                                (k + j <= Passes(input')) =>
                                    LET c == LoopAfter(input', k + j)
                                    IN  /\ c.err = ""
                                        /\ c.pos = a.pos + 1
                                        /\ c.img[k + j] = a.self.state
                                        /\ c.self.state = a.self.state
                                        /\ c.self.buffer = a.self.buffer ]_vars

\* a 2x2 image that starts with a RUN of 3: the StreamDecoder's index is still
\* empty, the Decoder has written (0,0,0,255) into slot 53
C19_Witness ==
    /\ input = H2x2 \o <<194>>
    /\ out.tag = "Pixels" /\ out.n = 3
    /\ sdec.dec_buffer = EmptyCache
    /\ LoopAfter(input, 0).self.buffer[53] = Pixel(0, 0, 0, 0)
    /\ LoopAfter(input, 1).self.buffer[53] = Pixel(0, 0, 0, 255)

\* the index slot of a pixel, over the integers
SlotOf(p) == (p.r * 3 + p.g * 5 + p.b * 7 + p.a * 11) % 64

\* colour bytes tried in an RGB opcode
RgbSamples ==
    { <<0, 0, 0>>, <<255, 255, 255>>, <<200, 10, 20>>, <<254, 255, 0>>, <<192, 64, 128>> }

\* C20: the opcode 0xFE r g b yields, in both decoders, exactly one pixel
\* (r, g, b, a_prev) with a_prev the alpha of the last pixel before the opcode,
\* makes it the last pixel, and writes it into slot hash % 64 of the index, all
\* other slots unchanged.  For the StreamDecoder the four feeds applied to every
\* decoder reached at an opcode boundary; for the Decoder every pass of the loop
\* of decode that reads an RGB opcode, looked at when the bytes fed end with the
\* four bytes of one.
C20_RgbOpcode ==
    /\ sdec.state = ParsingOp(0, -1) =>
           \A c \in RgbSamples :
           \A f1 \in {Feed(sdec, 254)} : \A f2 \in {Feed(f1.d, c[1])} :
           \A f3 \in {Feed(f2.d, c[2])} : \A f4 \in {Feed(f3.d, c[3])} :
               LET P == Pixel(c[1], c[2], c[3], sdec.last_pixel.a)
               IN  /\ <<f1.out, f2.out, f3.out>> = <<NeedMore(3), NeedMore(2), NeedMore(1)>>
                   /\ f4.out = Pixels(1, P)
                   /\ f4.d.last_pixel = P
                   /\ f4.d.dec_buffer = [sdec.dec_buffer EXCEPT ![SlotOf(P)] = P]
                   /\ f4.d.cur_pix = sdec.cur_pix + 1
                   /\ f3.d.cur_pix = sdec.cur_pix /\ f3.d.dec_buffer = sdec.dec_buffer
    /\ (Len(input) >= 4 /\ input[Len(input) - 3] = 254) =>
         \A k \in 0..(Passes(input) - 1) :
         \A a \in {LoopAfter(input, k)} : \A b \in {DecodeStep(input, a)} :
           LET P == Pixel(input[a.pos + 2], input[a.pos + 3], input[a.pos + 4], a.self.state.a)
           IN  (a.err = "" /\ a.run = 0 /\ a.pos + 4 <= Len(input) /\ input[a.pos + 1] = 254) =>
                   /\ b.err = "" /\ b.run = 0
                   /\ b.pos = a.pos + 4
                   /\ b.img = Append(a.img, P)
                   /\ b.self.state = P
                   /\ b.self.buffer = [a.self.buffer EXCEPT ![SlotOf(P)] = P]

\* after reset(), a 1x1 image of one RGB opcode went through both decoders
C20_Witness ==
    /\ ~fresh
    /\ input = H1x1 \o <<254, 200, 10, 20>>
    /\ out = Pixels(1, Pixel(200, 10, 20, 255))
    /\ sdec.dec_buffer[11] = Pixel(200, 10, 20, 255)
    /\ LoopAfter(input, 1).self.buffer[11] = Pixel(200, 10, 20, 255)

\* the colour channels of a pixel and the three 2-bit fields of a DIFF byte, in
\* the order r, g, b
Chans(p) == <<p.r, p.g, p.b>>
Stored(b) == <<(b \div 16) % 4, (b \div 4) % 4, b % 4>>

\* ((c + s - 2) mod 256 on every colour channel, alpha kept: over the integers
DiffOf(p, b) ==
    Pixel((p.r + Stored(b)[1] - 2 + 256) % 256,
          (p.g + Stored(b)[2] - 2 + 256) % 256,
          (p.b + Stored(b)[3] - 2 + 256) % 256,
          p.a)

\* the loop of decode at the opcode boundary the StreamDecoder stands at: as many
\* passes as pixels were yielded
LoopHere == LoopAfter(input, Len(emitted))

\* C21: a DIFF byte (0x40..0x7F) applied to last pixel (r,g,b,a) yields in both
\* decoders ((r+sr-2) mod 256, (g+sg-2) mod 256, (b+sb-2) mod 256, a): stored 0 on
\* channel 0 gives 254, stored 3 on channel 255 gives 0, stored 2 leaves the
\* channel as it is.  Each of the 64 DIFF bytes applied at every opcode boundary
\* reached, to the StreamDecoder by feed and to the Decoder by one pass of its loop.
C21_DiffOpcode ==
    sdec.state = ParsingOp(0, -1) =>
        \A lp \in {LoopHere} :
            /\ lp.err = "" /\ lp.run = 0 /\ lp.pos = Len(input)
            /\ \A b \in 64..127 :
               \A f \in {Feed(sdec, b)} : \A c \in {DecodeStep(Append(input, b), lp)} :
                   LET p == sdec.last_pixel
                       q == lp.self.state
                   IN  /\ f.out = Pixels(1, DiffOf(p, b))
                       /\ f.d.last_pixel = DiffOf(p, b)
                       /\ c.err = ""
                       /\ c.self.state = DiffOf(q, b)
                       /\ c.img = Append(lp.img, DiffOf(q, b))
                       /\ \A i \in 1..3 :
                              /\ (Stored(b)[i] = 0 /\ Chans(p)[i] = 0) =>
                                     Chans(f.d.last_pixel)[i] = 254
                              /\ (Stored(b)[i] = 3 /\ Chans(q)[i] = 255) =>
                                     Chans(c.self.state)[i] = 0
                              /\ Stored(b)[i] = 2 =>
                                     /\ Chans(f.d.last_pixel)[i] = Chans(p)[i]
                                     /\ Chans(c.self.state)[i] = Chans(q)[i]

\* (255,0,255,255) took a DIFF of (+1,+1,+1) in both decoders: red and blue wrapped to 0
C21_Witness ==
    /\ input = HProbe \o <<255, 255, 0, 255, 255>> \o <<127>>
    /\ out = Pixels(1, Pixel(0, 1, 0, 255))
    /\ sdec.last_pixel = Pixel(0, 1, 0, 255)
    /\ LoopAfter(input, 2).self.state = Pixel(0, 1, 0, 255)

\* the pixel the LUMA bytes b1 (6-bit field sg) and b2 (4-bit fields sr, sb) make
\* of p, over the integers
LumaOf(p, b1, b2) ==
    LET sg == b1 % 64
        sr == b2 \div 16
        sb == b2 % 16
    IN  Pixel((p.r + sg - 32 - 8 + sr + 256) % 256,
              (p.g + sg - 32 + 256) % 256,
              (p.b + sg - 32 - 8 + sb + 256) % 256,
              p.a)

\* second bytes tried with every first byte: the 4-bit fields (0,0) and (15,15)
LumaSeconds == {0, 255}

\* C22: the LUMA bytes b1 (0x80..0xBF) and b2 applied to last pixel (r,g,b,a) yield
\* in both decoders g' = (g+sg-32) mod 256, r' = (r+sg-32-8+sr) mod 256,
\* b' = (b+sg-32-8+sb) mod 256, a' = a; the StreamDecoder, which keeps the green
\* difference in buffer[0] between its two feed calls, yields the same.  At every
\* opcode boundary reached: each of the 64 first bytes with two second bytes; on
\* every decoder reached between the two bytes: each of the 256 second bytes.
C22_LumaOpcode ==
    \A lp \in {LoopHere} :
        /\ sdec.state = ParsingOp(0, -1) =>
               \A b1 \in 128..191 :
                   \A f1 \in {Feed(sdec, b1)} :
                       /\ f1.out = NeedMore(1)
                       /\ f1.d.last_pixel = sdec.last_pixel
                       /\ \A b2 \in LumaSeconds :
                              \A f2 \in {Feed(f1.d, b2)} :
                              \A c \in {DecodeStep(input \o <<b1, b2>>, lp)} :
                                  /\ f2.out = Pixels(1, LumaOf(sdec.last_pixel, b1, b2))
                                  /\ f2.d.last_pixel = LumaOf(sdec.last_pixel, b1, b2)
                                  /\ c.err = "" /\ c.pos = Len(input) + 2
                                  /\ c.self.state = LumaOf(lp.self.state, b1, b2)
                                  /\ c.img = Append(lp.img, c.self.state)
        /\ (sdec.state.tag = "ParsingOp" /\ sdec.state.o \in 128..191 /\ sdec.state.c = 1) =>
               /\ lp.err = "" /\ lp.run = 0 /\ lp.pos = Len(input) - 1
               /\ input[Len(input)] = sdec.state.o
               /\ \A b2 \in 0..255 :
                      \A f2 \in {Feed(sdec, b2)} :
                      \A c \in {DecodeStep(Append(input, b2), lp)} :
                          /\ f2.out = Pixels(1, LumaOf(sdec.last_pixel, sdec.state.o, b2))
                          /\ f2.d.last_pixel = LumaOf(sdec.last_pixel, sdec.state.o, b2)
                          /\ c.err = ""
                          /\ c.self.state = LumaOf(lp.self.state, sdec.state.o, b2)

\* (255,0,255,255) took the LUMA bytes 0xBF 0xF8 (dg = +31, dr-dg = +7, db-dg = 0)
\* in both decoders: red and blue wrapped
C22_Witness ==
    /\ input = HProbe \o <<255, 255, 0, 255, 255>> \o <<191, 248>>
    /\ outs[Len(outs) - 1] = NeedMore(1)
    /\ out = Pixels(1, Pixel(37, 31, 30, 255))
    /\ LoopAfter(input, 2).self.state = Pixel(37, 31, 30, 255)

\* C23: an INDEX byte (top bits 00, low 6 bits i) makes the pixel yielded and the
\* new last pixel the content of index slot i, verbatim, in both decoders; the
\* slot read is in 0..63 for every such byte, inside the 64 slots both decoders
\* keep.  Each of the 64 INDEX bytes applied at every opcode boundary reached.
C23_IndexOpcode ==
    /\ DOMAIN sdec.dec_buffer = 0..63
    /\ sdec.state = ParsingOp(0, -1) =>
           \A lp \in {LoopHere} :
               /\ DOMAIN lp.self.buffer = 0..63
               /\ \A b \in 0..255 :
                      (b \div 64) % 4 = 0 =>
                          \A f \in {Feed(sdec, b)} :
                          \A c \in {DecodeStep(Append(input, b), lp)} :
                              /\ b % 64 \in DOMAIN sdec.dec_buffer
                              /\ f.out = Pixels(1, sdec.dec_buffer[b % 64])
                              /\ f.d.last_pixel = sdec.dec_buffer[b % 64]
                              /\ DOMAIN f.d.dec_buffer = 0..63
                              /\ b % 64 \in DOMAIN lp.self.buffer
                              /\ c.err = "" /\ c.pos = Len(input) + 1
                              /\ c.self.state = lp.self.buffer[b % 64]
                              /\ c.img = Append(lp.img, lp.self.buffer[b % 64])
                              /\ DOMAIN c.self.buffer = 0..63

\* after RGBA (255,0,255,255), whose slot is 43, INDEX 43 yielded that pixel in
\* both decoders; INDEX 53 would yield the zero pixel of an empty slot
C23_Witness ==
    /\ input = HProbe \o <<255, 255, 0, 255, 255>> \o <<43>>
    /\ outs[Len(outs) - 1] = Pixels(1, Pixel(255, 0, 255, 255))
    /\ out = Pixels(1, Pixel(255, 0, 255, 255))
    /\ sdec.dec_buffer[43] = Pixel(255, 0, 255, 255)
    /\ LoopAfter(input, 2).self.state = Pixel(255, 0, 255, 255)
    /\ Feed(sdec, 53).out = Pixels(1, Pixel(0, 0, 0, 0))

\* r*3 + g*5 + b*7 + a*11 over the integers
HashSum(p) == p.r * 3 + p.g * 5 + p.b * 7 + p.a * 11

\* pixels around the values where a product passes 255 (85/86 * 3, 51/52 * 5,
\* 36/37 * 7, 23/24 * 11), the ends of the range, and some in between
HashSamples ==
    { <<0, 0, 0, 0>>, <<0, 0, 0, 255>>, <<255, 255, 255, 255>>, <<255, 0, 255, 0>>,
      <<85, 51, 36, 23>>, <<86, 52, 37, 24>>, <<86, 0, 0, 0>>, <<0, 0, 0, 24>>,
      <<1, 2, 3, 4>>, <<128, 64, 32, 16>>, <<200, 100, 50, 25>>, <<22, 10, 20, 0>> }

\* C24: the index slot both decoders use for a pixel (r,g,b,a) is
\* ((r*3 + g*5 + b*7 + a*11) mod 256) mod 64, the hash being computed with 8-bit
\* wrapping products and sums; the slot lies in 0..63 and equals
\* (r*3 + g*5 + b*7 + a*11) mod 64 over the integers.  The last pixel of every
\* decoder reached, and the slot each decoder writes when an RGBA opcode makes one
\* of the sample pixels its last pixel at an opcode boundary reached.
C24_IndexHash ==
    /\ hash_pixel(sdec.last_pixel) = HashSum(sdec.last_pixel) % 256
    /\ hash_pixel(sdec.last_pixel) % 64 = HashSum(sdec.last_pixel) % 64
    /\ sdec.state = ParsingOp(0, -1) =>
           \A lp \in {LoopHere} :
               \A s \in HashSamples :
               \A f \in {Feed(Feed(Feed(Feed(Feed(sdec, 255).d, s[1]).d, s[2]).d, s[3]).d, s[4])} :
               \A c \in {DecodeStep(input \o <<255>> \o s, lp)} :
                   LET P == Pixel(s[1], s[2], s[3], s[4])
                       slot == (HashSum(P) % 256) % 64
                   IN  /\ slot \in 0..63
                       /\ slot = HashSum(P) % 64
                       /\ hash_pixel(P) = HashSum(P) % 256
                       /\ f.out = Pixels(1, P)
                       /\ f.d.dec_buffer[slot] = P
                       /\ \A i \in 0..63 : i # slot => f.d.dec_buffer[i] = sdec.dec_buffer[i]
                       /\ c.err = ""
                       /\ c.self.buffer[slot] = P
                       /\ \A i \in 0..63 : i # slot => c.self.buffer[i] = lp.self.buffer[i]

\* RGBA (255,0,255,255): the sum is 5355, the hash 235, and both decoders wrote slot 43
C24_Witness ==
    /\ input = HProbe \o <<255, 255, 0, 255, 255>>
    /\ out = Pixels(1, Pixel(255, 0, 255, 255))
    /\ HashSum(out.px) = 5355
    /\ hash_pixel(out.px) = 235
    /\ sdec.dec_buffer = [EmptyCache EXCEPT ![43] = out.px]
    /\ LoopAfter(input, 1).self.buffer = [EmptyCache EXCEPT ![43] = out.px]

\* Where the last byte of src stands in the opcode stream that starts after
\* position pos: <<first byte of its opcode, its number in that opcode>>, by the
\* opcode lengths alone.
RECURSIVE OpcodeAt(_, _)
OpcodeAt(src, pos) ==
    IF pos + OpcodeLen(src[pos + 1]) >= Len(src)
    THEN <<src[pos + 1], Len(src) - pos>>
    ELSE OpcodeAt(src, pos + OpcodeLen(src[pos + 1]))

\* C25: in the StreamDecoder every opcode takes exactly its length in feed calls
\* and yields its pixels on its last byte only: Pixels on byte 1 of INDEX, DIFF and
\* RUN, byte 2 of LUMA, byte 4 of RGB, byte 5 of RGBA; every earlier byte returns
\* NeedMore, yields no pixel and leaves the pixel count and the index as they
\* were; after Pixels the state is ParsingOp(0, -1) or Finished.
C25_PixelsOnLastByte ==
    [][ (lastop' = "feed" /\ sdec.state.tag = "ParsingOp" /\ Len(input) >= HeaderLen) =>
          LET at == OpcodeAt(input', HeaderLen)
          IN  /\ (sdec.state = ParsingOp(0, -1)) <=> (at[2] = 1)
              /\ IF at[2] = OpcodeLen(at[1])
                 THEN /\ out'.tag = "Pixels"
                      /\ out'.n >= 1
                      /\ emitted' = emitted \o Drain(out'.n, out'.px)
                      /\ sdec'.state \in {ParsingOp(0, -1), Finished}
                 ELSE /\ out'.tag = "NeedMore"
                      /\ emitted' = emitted
                      /\ sdec'.cur_pix = sdec.cur_pix
                      /\ sdec'.dec_buffer = sdec.dec_buffer
                      /\ sdec'.state.tag = "ParsingOp" /\ sdec'.state.c # -1 ]_vars

\* the five bytes of an RGBA opcode: NeedMore four times, then the pixel
C25_Witness ==
    /\ input = H2x2 \o <<255, 22, 10, 20, 0>>
    /\ \A i \in 15..18 : outs[i].tag = "NeedMore"
    /\ out = Pixels(1, Pixel(22, 10, 20, 0))
    /\ sdec.state = ParsingOp(0, -1)
    /\ sdec.cur_pix = 1

\* the big-endian u32 of four bytes, as 16-bit halves
BigEndian(b) == <<b[1] * 256 + b[2], b[3] * 256 + b[4]>>

\* C26: in the StreamDecoder, for every header with valid magic, the 8th feed
\* returns ImageWidthParsed(w), w the big-endian u32 of bytes 4..7, and sets the
\* pixel target to w; the 12th feed returns ImageHeightParsed(h), h the big-endian
\* u32 of bytes 8..11, and sets the pixel target to w * h; feeds 5-7 and 9-11
\* return NeedMore and leave the pixel target as it was.
C26_WidthHeightEvents ==
    (Len(input) >= 4 /\ SubSeq(input, 1, 4) = <<113, 111, 105, 102>>) =>
        /\ \A i \in 5..Len(input) :
               /\ i \in {5, 6, 7, 9, 10, 11} => outs[i].tag = "NeedMore"
               /\ i = 8 => outs[8] = ImageWidthParsed(BigEndian(SubSeq(input, 5, 8)))
               /\ i = 12 => outs[12] = ImageHeightParsed(BigEndian(SubSeq(input, 9, 12)))
        /\ Len(input) \in 4..7 => sdec.num_pix = None
        /\ Len(input) \in 8..11 =>
               sdec.num_pix = Some(<<0, 0>> \o BigEndian(SubSeq(input, 5, 8)))
        /\ Len(input) = 12 => sdec.num_pix = Some(PixelTarget(input))

\* a header of width 0: the width is reported on the 8th feed and the 9th is
\* answered with Finished
C26_Witness ==
    /\ input = SubSeq(HeaderBytes(<<0, 0>>, <<0, 2>>, 3, 0), 1, 9)
    /\ outs[8] = ImageWidthParsed(<<0, 0>>)
    /\ out = OutFinished
    /\ sdec.state = Finished
    /\ sdec.num_pix = Some(<<0, 0, 0, 0>>)

\* C27: in the StreamDecoder, for every input that starts with the magic and for
\* every width and height, the 13th byte fed is validated as the channel byte (3
\* or 4 returns ImageChannelParsed, anything else HeaderParseError) and the 14th
\* as the colorspace byte (0 or 1 returns ImageColorspaceParsed and moves to
\* ParsingOp(0, -1), anything else HeaderParseError); so the StreamDecoder reports
\* an error within the first 14 feeds exactly when Header::from_bytes rejects the
\* same 14 bytes.
C27_ChannelColorspaceChecked ==
    (Len(input) >= 13 /\ SubSeq(input, 1, 4) = <<113, 111, 105, 102>>) =>
        /\ outs[13] = CASE input[13] = 3 -> ImageChannelParsed("RGB")
                        [] input[13] = 4 -> ImageChannelParsed("RGBA")
                        [] OTHER -> ErrHeader("channels")
        /\ (Len(input) >= 14 /\ ~IsErr(outs[13])) =>
               outs[14] = CASE input[14] = 0 -> ImageColorspaceParsed("sRGB")
                            [] input[14] = 1 -> ImageColorspaceParsed("Linear")
                            [] OTHER -> ErrHeader("colorspace")
        /\ (Len(input) = 14 /\ ~IsErr(outs[13]) /\ ~IsErr(outs[14])) =>
               sdec.state = ParsingOp(0, -1)
        /\ Len(input) = 14 =>
               ((\E i \in 1..14 : IsErr(outs[i])) <=> ~HeaderFromBytes(input).ok)

\* width 0, a channel byte of 5, a colorspace byte of 2: the StreamDecoder answers
\* Finished to both, Header::from_bytes rejects the header
C27_Witness ==
    /\ input = SubSeq(HeaderBytes(<<0, 0>>, <<0, 2>>, 3, 0), 1, 12) \o <<5, 2>>
    /\ outs[13] = OutFinished
    /\ \A i \in 1..14 : ~IsErr(outs[i])
    /\ ~HeaderFromBytes(input).ok
    /\ HeaderFromBytes(input).err = HeaderParseError("channels")

\* the sum of the counts of the Pixels values among the outputs os
RECURSIVE SumPixels(_)
SumPixels(os) ==
    IF os = <<>>
    THEN 0
    ELSE (IF os[1].tag = "Pixels" THEN os[1].n ELSE 0) + SumPixels(Tail(os))

\* C28: the StreamDecoder's running pixel count is the sum of the counts of all
\* Pixels iterators returned since new()/reset(): a feed adds 1 when it completes
\* an RGB, RGBA, INDEX, DIFF or LUMA opcode, N when it takes a RUN of length N, and
\* 0 otherwise (header bytes, NeedMore, Finished, errors).
C28_PixelCount ==
    [][ /\ sdec'.cur_pix = SumPixels(outs')
        /\ lastop' = "feed" =>
              /\ sdec'.cur_pix - sdec.cur_pix = (IF out'.tag = "Pixels" THEN out'.n ELSE 0)
              /\ out'.tag = "Pixels" =>
                    LET op == OpcodeAt(input', HeaderLen)[1]
                    IN  out'.n = (IF op >= 192 /\ op <= 253 THEN (op % 64) + 1 ELSE 1)
              /\ Len(emitted') = sdec'.cur_pix ]_vars

\* a DIFF and a RUN of 3 in a 2x2 image: the count went 1, then 4
C28_Witness ==
    /\ input = H2x2 \o <<64, 194>>
    /\ outs[15].tag = "Pixels" /\ outs[15].n = 1
    /\ out.tag = "Pixels" /\ out.n = 3
    /\ sdec.cur_pix = 4
    /\ sdec.state = Finished

\* the first and last byte of each opcode's range: INDEX, DIFF, LUMA, RUN, RGB, RGBA
RangeEnds == {0, 63, 64, 127, 128, 191, 192, 253, 254, 255}

\* the states the StreamDecoder is expected to be in
ExpectedState(st) ==
    \/ st = NotStarted
    \/ st = Finished
    \/ st.tag = "ParsingHeader" /\ st.o = 0 /\ st.c \in 0..13
    \/ st.tag = "ParsingOp" /\ st.o = 0 /\ st.c = -1
    \/ st.tag = "ParsingOp" /\ st.o = 254 /\ st.c \in 0..2
    \/ st.tag = "ParsingOp" /\ st.o = 255 /\ st.c \in 0..3
    \/ st.tag = "ParsingOp" /\ st.o \in 128..191 /\ st.c = 1

\* C29: opcode dispatch is exhaustive and DecodingError is never returned, by feed
\* after new()/reset() or by decode; the StreamDecoder is only ever NotStarted, in
\* ParsingHeader(0..13), Finished, at ParsingOp(0, -1), in ParsingOp(0xFE, 0..2),
\* ParsingOp(0xFF, 0..3) or ParsingOp(LUMA byte, 1), so a count of -1 goes with
\* opcode 0 only and opcode 0 with a count of -1 only.  Every decoder reached at
\* an opcode boundary is tried with the bytes at the ends of the opcode ranges,
\* the first opcode byte with all 256 values in both decoders; decode is run on
\* the bytes fed whenever they end with a whole opcode (where it does not panic
\* on width * height, the overflow-checked build returns what the other returns).
C29_NoDecodingError ==
    /\ ExpectedState(sdec.state)
    /\ sdec.state.tag = "ParsingOp" => (sdec.state.o = 0 <=> sdec.state.c = -1)
    /\ out.tag # "DecodingError"
    /\ sdec.state = ParsingOp(0, -1) =>
           \A b \in RangeEnds :
               \A r \in {Feed(sdec, b)} :
                   r.out.tag \in {"NeedMore", "Pixels"} /\ ExpectedState(r.d.state)
    /\ out.tag = "ImageColorspaceParsed" =>
           \A b \in 0..255 :
               /\ \A r \in {Feed(sdec, b)} :
                      r.out.tag \in {"NeedMore", "Pixels"} /\ ExpectedState(r.d.state)
               /\ Passes(input) > 0 =>
                      DecodeStep(Append(input, b), LoopAfter(input, 0)).err \in {"", "IoError"}
    /\ out.tag \in {"Pixels", "ImageColorspaceParsed"} =>
           Decode(DecoderNew, input, FALSE).kind # "DecodingError"

\* a LUMA opcode and then the byte 0x00: it was taken as INDEX 0, at the sentinel
C29_Witness ==
    /\ input = H2x2 \o <<161, 15>> \o <<0>>
    /\ outs[15] = NeedMore(1)
    /\ outs[16].tag = "Pixels"
    /\ out = Pixels(1, sdec.dec_buffer[0])
    /\ sdec.state = ParsingOp(0, -1)
    /\ Decode(DecoderNew, input, TRUE).kind = "IoError"

\* ---- C30: order of the header events between two resets ----
\* position of a header event in the order the header fields are parsed; 0 for any other output
EventRank(o) ==
    CASE o.tag = "ImageWidthParsed" -> 1
      [] o.tag = "ImageHeightParsed" -> 2
      [] o.tag = "ImageChannelParsed" -> 3
      [] o.tag = "ImageColorspaceParsed" -> 4
      [] OTHER -> 0

\* C30: among the outputs returned since construction or the last reset, the four header
\* events come in strictly increasing rank (so each is returned at most once, and only in the
\* order width, height, channels, colorspace), an event of rank r > 1 is preceded by the event
\* of rank r - 1, and every Pixels output is preceded by ImageColorspaceParsed.
C30_EventOrdering ==
    \A rk \in {[i \in 1..Len(outs) |-> EventRank(outs[i])]} :
    \A evs \in {{i \in 1..Len(outs) : rk[i] > 0}} :
        /\ \A i \in evs : \A j \in evs : i < j => rk[i] < rk[j]
        /\ \A j \in evs : rk[j] > 1 => \E i \in evs : i < j /\ rk[i] = rk[j] - 1
        /\ \A j \in 1..Len(outs) :
               outs[j].tag = "Pixels" => \E i \in evs : i < j /\ rk[i] = 4

\* a whole header was fed, the four events came back on feeds 8, 12, 13 and 14, and the
\* fifteenth feed returned pixels
C30_Witness ==
    /\ input = H2x2 \o <<64>>
    /\ Len(outs) = 15
    /\ <<EventRank(outs[8]), EventRank(outs[12]), EventRank(outs[13]), EventRank(outs[14])>>
           = <<1, 2, 3, 4>>
    /\ outs[15].tag = "Pixels"

\* ---- C31: a caller that keeps feeding reaches Finished ----
\* the pixel target of a decoder whose header is read, as a number (targets here are small)
TargetOf(d) == d.num_pix.v[4]

\* C31: under SpecLive (a valid header of a non-empty image, then opcode bytes for
\* ever, no feed returning an error), once the header is read the StreamDecoder
\* eventually is in the Finished state and returns Finished.
C31_EventuallyFinished ==
    (sdec.state.tag = "ParsingOp") ~> (sdec.state = Finished /\ out = OutFinished)

\* a run took the pixel count past the target without the decoder finishing: from
\* here on no feed makes the two equal
C31_Witness ==
    /\ hdr = H1x1
    /\ sdec.state = ParsingOp(0, -1)
    /\ out.tag = "Pixels" /\ out.n = 2
    /\ sdec.cur_pix = 2
    /\ TargetOf(sdec) = 1

\* ---- C32: the feed that yields the last pixel returns Pixels, the next one Finished ----
\* C32: for a header of a non-empty image, read without error: the feed whose
\* pixels take the number yielded from below width * height to width * height or
\* above returns Pixels and leaves the decoder Finished; the feed after it
\* returns Finished; and a feed returns Finished only if the feed before it
\* returned Finished or was that feed (so Finished is never returned for the byte
\* of the last opcode itself).
C32_FinishedOnNextFeed ==
    [][ (lastop' = "feed" /\ Len(hdr) = HeaderLen /\ PixelTarget(hdr) # <<0, 0, 0, 0>>) =>
          LET T == PixelTarget(hdr)
              last(n, o) == /\ o.tag = "Pixels"
                            /\ ~LeU64(T, U64OfNat(n - o.n))
                            /\ LeU64(T, U64OfNat(n))
          IN  /\ last(Len(emitted'), out') => sdec'.state = Finished
              /\ (~LeU64(T, U64OfNat(Len(emitted))) /\ LeU64(T, U64OfNat(Len(emitted')))) =>
                     out'.tag = "Pixels"
              /\ last(Len(emitted), out) => out' = OutFinished
              /\ out' = OutFinished => (out = OutFinished \/ last(Len(emitted), out)) ]_vars

\* a 2x2 image and two RUNs of 3: the second yielded pixel 4 and two more, the
\* feed returned Pixels and the decoder is not Finished
C32_Witness ==
    /\ input = H2x2 \o <<194, 194>>
    /\ out.tag = "Pixels" /\ out.n = 3
    /\ Len(emitted) = 6
    /\ PixelTarget(hdr) = <<0, 0, 0, 4>>
    /\ sdec.state = ParsingOp(0, -1)

\* ---- C33: a feed that returns an error changes nothing ----
\* the header position of a decoder that is reading a header; -1 otherwise
HeaderPos(d) ==
    CASE d.state.tag = "NotStarted" -> 0
      [] d.state.tag = "ParsingHeader" -> d.state.c
      [] OTHER -> -1

\* C33: a feed that returns an error is a HeaderParseError at header position
\* 0..3, 12 or 13, and leaves the last pixel, the index, the scratch buffer, the
\* pixel target, the pixel count and the header position as they were (NotStarted
\* counting as position 0); each of the 256 bytes fed next gets the answer it
\* would have got instead of the rejected byte.
C33_ErrorLeavesStateAlone ==
    [][ (lastop' = "feed" /\ IsErr(out')) =>
          /\ out'.tag = "HeaderParseError"
          /\ HeaderPos(sdec) \in {0, 1, 2, 3, 12, 13}
          /\ HeaderPos(sdec') = HeaderPos(sdec)
          /\ sdec'.last_pixel = sdec.last_pixel
          /\ sdec'.dec_buffer = sdec.dec_buffer
          /\ sdec'.buffer = sdec.buffer
          /\ sdec'.num_pix = sdec.num_pix
          /\ sdec'.cur_pix = sdec.cur_pix
          /\ \A b \in 0..255 : Feed(sdec', b) = Feed(sdec, b) ]_vars

\* the channel byte 5 was rejected at position 12, then the byte 3 accepted there
C33_Witness ==
    /\ input = SubSeq(H1x1, 1, 12) \o <<5, 3>>
    /\ IsErr(outs[13])
    /\ out = ImageChannelParsed("RGB")
    /\ sdec.state = ParsingHeader(13)
    /\ sdec.num_pix = Some(<<0, 0, 0, 1>>)

\* ---- C34: after reset() only the bytes fed since count ----
\* the decoder reset() leaves behind when called on a decoder nothing was fed to
AfterReset == StreamReset(StreamNew)

\* feeding the bytes bs one by one: acc holds the decoder, the values returned
\* and the pixels drained after the first Len(acc.outs) of them
RECURSIVE FeedAll(_, _)
FeedAll(acc, bs) ==
    IF Len(acc.outs) = Len(bs)
    THEN acc
    ELSE LET r == Feed(acc.d, bs[Len(acc.outs) + 1])
         IN  FeedAll([d |-> r.d,
                      outs |-> Append(acc.outs, r.out),
                      pixels |-> IF r.out.tag = "Pixels"
                                 THEN acc.pixels \o Drain(r.out.n, r.out.px)
                                 ELSE acc.pixels],
                     bs)

\* nothing fed yet to the decoder d
Unfed(d) == [d |-> d, outs |-> <<>>, pixels |-> <<>>]

\* C34: whatever was fed before it (nothing, part of a header, part of an opcode,
\* a whole image, a byte that was rejected), reset() leaves the same decoder, and
\* the values returned and pixels yielded by the feeds since the last reset are
\* those the bytes fed since then give on that decoder.
C34_ResetForgetsHistory ==
    [][ /\ lastop' = "reset" => (sdec' = AfterReset /\ outs' = <<>> /\ emitted' = <<>>)
        /\ (lastop' = "feed" /\ ~fresh') =>
              \A rp \in {FeedAll(Unfed(AfterReset), input')} :
                  /\ rp.outs = outs'
                  /\ rp.pixels = emitted'
                  /\ rp.d = sdec' ]_vars

\* after the last reset() the header of a 2x2 image and INDEX 0 were fed: the
\* empty slot came back, as on a decoder that was reset before anything was fed
C34_Witness ==
    /\ ~fresh
    /\ nresets = MaxResets
    /\ input = H2x2 \o <<0>>
    /\ out = Pixels(1, Pixel(0, 0, 0, 0))
    /\ outs = FeedAll(Unfed(AfterReset), input).outs
    /\ sdec.last_pixel = Pixel(0, 0, 0, 0)

\* ---- C35: the pixel count is width * height, without wraparound ----
\* a u32 held as two 16-bit halves, and a u64 held as four, as bytes, lowest first
BytesOfU32(v) == <<v[2] % 256, v[2] \div 256, v[1] % 256, v[1] \div 256>>
BytesOfU64(v) == BytesOfU32(<<v[3], v[4]>>) \o BytesOfU32(<<v[1], v[2]>>)

\* width * height over the integers, by long multiplication on bytes: the eight
\* bytes of the product, lowest first
ProductColumn(a, b, k) ==
    LET term(i) == IF k - i \in 0..3 THEN a[i + 1] * b[k - i + 1] ELSE 0
    IN  term(0) + term(1) + term(2) + term(3)
RECURSIVE ProductFrom(_, _, _, _)
ProductFrom(a, b, k, carry) ==
    IF k = 8
    THEN <<>>
    ELSE <<(ProductColumn(a, b, k) + carry) % 256>>
             \o ProductFrom(a, b, k + 1, (ProductColumn(a, b, k) + carry) \div 256)
ExactProduct(w, h) == ProductFrom(BytesOfU32(w), BytesOfU32(h), 0, 0)

\* `(header.width * header.height) as usize` where the multiplication wraps
NumPixels(header) == WrappingMulU32(header.width, header.height)

\* C35: for every source whose first 14 bytes are a header Header::from_bytes
\* accepts, decode does not fail on the multiplication, the number of pixels it
\* sets out to decode (and returns, when it returns Ok) is width * height over
\* the integers, and so is the pixel target a StreamDecoder holds after the 12
\* bytes of magic, width and height.
C35_PixelCountExact ==
    (d_res.done /\ Len(d_src) >= HeaderLen /\ HeaderFromBytes(SubSeq(d_src, 1, HeaderLen)).ok) =>
        \A hd \in {HeaderFromBytes(SubSeq(d_src, 1, HeaderLen)).header} :
        \A st \in {FeedAll(Unfed(StreamNew), SubSeq(d_src, 1, 12)).d} :
            /\ d_res.kind # "Panic"
            /\ BytesOfU64(<<0, 0>> \o NumPixels(hd)) = ExactProduct(hd.width, hd.height)
            /\ d_res.kind = "Ok" =>
                   BytesOfU64(U64OfNat(Len(d_res.img))) = ExactProduct(hd.width, hd.height)
            /\ st.num_pix.some
            /\ BytesOfU64(st.num_pix.v) = ExactProduct(hd.width, hd.height)

\* width 0x80000001 and height 2, product 0x100000002: decode built without
\* overflow checks returned 2 pixels, the StreamDecoder's target is the product
C35_Witness ==
    /\ d_res.done
    /\ d_src = HWrap2 \o <<194>>
    /\ d_res.kind = "Ok"
    /\ Len(d_res.img) = 2
    /\ ExactProduct(d_res.header.width, d_res.header.height) = <<2, 0, 0, 0, 1, 0, 0, 0>>
    /\ FeedAll(Unfed(StreamNew), SubSeq(d_src, 1, 12)).d.num_pix = Some(<<0, 1, 0, 2>>)

----------------------------------------------------------------------------
(* C36: a PixelsIter constructed with count n and pixel p answers its next()
   calls with Some(p) exactly n times and with None ever after (an exhausted
   iterator is left as it is by next(), so every further call is the same
   call); size_hint reports the number of pixels still to be yielded as lower
   and as upper bound at every point; and the iterator of a Pixels output of
   feed has n = 1, except for a RUN opcode (bytes 192..253), where n is the
   run length, the byte less 191, in 1..62. *)
C36_PixelsIterYields ==
    /\ iter.live =>
        /\ \A i \in 1..Len(taken) :
              taken[i] = IF i <= made.count THEN SomePixel(made.pixel) ELSE NonePixel
        /\ \A rem \in { IF Len(taken) < made.count THEN made.count - Len(taken) ELSE 0 } :
              SizeHint(iter) = [lower |-> rem, upper |-> [some |-> TRUE, v |-> rem]]
        /\ iter.count = 0 => IterNext(iter) = [it |-> iter, item |-> NonePixel]
        /\ made.by = "feed" =>
              /\ made.count \in 1..62
              /\ made.count = IF IsRunByte(made.op) THEN made.op - 191 ELSE 1
              /\ Len(taken) >= made.count =>
                    [i \in 1..made.count |-> taken[i].v] = Drain(made.count, made.pixel)
    /\ \A b \in 0..255 :
          \A r \in { Feed(sdec, b) } :
              /\ r.out.tag = "Pixels" =>
                    r.out.n = IF sdec.state = ParsingOp(0, -1) /\ IsRunByte(b)
                              THEN b - 191 ELSE 1
              /\ sdec.state = ParsingOp(0, -1) /\ IsRunByte(b) => r.out.tag = "Pixels"

\* after an RGB pixel a RUN of 62 (byte 253): its iterator has yielded the pixel
\* 62 times and then answered None twice
C36_Witness ==
    /\ made.by = "feed"
    /\ made.op = 253
    /\ made.count = 62
    /\ made.pixel.r = 255
    /\ Len(taken) = 64
    /\ taken[1] = SomePixel(made.pixel)
    /\ taken[62] = SomePixel(made.pixel)
    /\ taken[63] = NonePixel
    /\ taken[64] = NonePixel
    /\ iter.count = 0
    /\ SizeHint(iter).lower = 0

====
